---------------------------- MODULE Spec2Model ----------------------------
(***************************************************************************)
(* A model of the image-to-vector tracing pipeline of png-url-to-svg:      *)
(* colour quantisation, per-colour masking, denoising, contour tracing,    *)
(* Ramer-Douglas-Peucker simplification and SVG emission.                  *)
(*                                                                         *)
(* Numbers.  Pixel coordinates are integers.  Squared distances computed   *)
(* by simplifyPath are rationals; they are kept exactly, as a pair         *)
(* <<numerator, denominator>> with a positive denominator, and compared by *)
(* cross multiplication.  Epsilon is kept in tenths (the sliders of the    *)
(* application move in tenths), so epsilon squared is eps10^2 / 100.       *)
(***************************************************************************)
EXTENDS Integers, Sequences, FiniteSets, TLC

VARIABLES
    \* ---- simplifyPath applied once and twice to one path
    points,        \* the input path
    epsilon,       \* the tolerance, in tenths
    simplified,    \* simplifyPath(points, epsilon)
    resimplified,  \* simplifyPath(simplified, epsilon)
    spc,           \* "input" | "once" | "twice" | "coarser"
    coarser,       \* a second tolerance, not below epsilon, in tenths
    coarsened,     \* simplifyPath(points, coarser)
    \* ---- traceContours
    mask,          \* the ImageData being traced: [width, height, data]
    visited,       \* Uint8Array(width * height), as a sequence of 0/1
    paths,         \* the paths pushed so far
    scanIdx,       \* y * width + x of the next pixel of the row-major scan
    startPoint,    \* the candidate the current walk started from
    currentPoint,  \* the walk's current pixel
    dir,           \* the direction of the walk's last step, 0..7
    path,          \* the points pushed by the current walk
    pc,            \* the position of the tracing code
    \* ---- traceImage
    imageData,        \* the pixels getImageData resolved with
    tracingTolerance, \* options.tracingTolerance, in tenths
    colors,           \* the list quantizeAndGetColors returned
    ci,               \* the position of the loop over colors, from 1
    allShapes,        \* the shapes pushed so far
    contourLists,     \* the value of `contours` in each iteration so far
    traced,           \* the TracedData returned by traceImage, given to generateSvg
    \* generateSvg
    options,          \* the GenerateSvgOptions (numbers in tenths)
    svgCode,          \* the string returned
    gpc,              \* "idle", "input", "generated" or "regenerated"
    tracedCopy,       \* a copy of the TracedData that is given to no call
    \* ---- App
    app               \* the state of the App component: its useState values,
                      \* its ref, its debounce timer and its pending promises

simpVars == <<points, epsilon, simplified, resimplified, spc, coarser,
              coarsened>>

contourVars == <<mask, visited, paths, scanIdx, startPoint, currentPoint,
                 dir, path, pc>>

imageVars == <<imageData, tracingTolerance, colors, ci, allShapes,
               contourLists, traced>>

svgVars == <<options, svgCode, gpc, tracedCopy>>

vars == <<simpVars, contourVars, imageVars, svgVars, app>>

(***************************************************************************)
(* Bounds of the model.                                                    *)
(***************************************************************************)
MaxPathLen == 4      \* longest path given to simplifyPath on its own
MaxX == 2            \* largest x of a point of such a path
MaxY == 1            \* largest y of a point of such a path
MaskW == 4           \* widest mask given to traceContours on its own
MaskH == 3           \* tallest such mask
ImgW == 3            \* width of the two-valued images given to traceImage
ImgH == 3            \* their height
MaxRectW == 5        \* widest solid rectangle
MaxRectH == 5        \* tallest solid rectangle
MinInner == 3        \* smallest side of a ring's hole
MaxInner == 4        \* largest side of a ring's hole
MaxThick == 2        \* largest thickness of a ring
MaxMargin == 1       \* widest clear margin around a ring
MaxShapes == 2       \* most shapes of a TracedData given to generateSvg
MaxContours == 2     \* most contours of one such shape
SvgW == 2            \* widest such TracedData
SvgH == 2            \* tallest such TracedData

Epsilons == {0, 5, 10, 20}   \* 0, 0.5, 1.0, 2.0

Pt(px, py) == [x |-> px, y |-> py]

GridPoints == {Pt(px, py) : px \in 0..MaxX, py \in 0..MaxY}

InputPaths == UNION {[1..n -> GridPoints] : n \in 0..MaxPathLen}

(***************************************************************************)
(* simplifyPath (Ramer-Douglas-Peucker).                                   *)
(***************************************************************************)

\* The squared distance of p to the segment p1-p2, as <<num, den>>.
\* With t = tn/td the code moves (x, y) to p1 + t*(dx, dy) when 0 < t <= 1
\* and then returns (p.x - x)^2 + (p.y - y)^2, which is
\*   ( ((p.x-p1.x)*td - dx*tn)^2 + ((p.y-p1.y)*td - dy*tn)^2 ) / td^2
\* = ( ((p.x-p1.x)^2 + (p.y-p1.y)^2)*td - tn^2 ) / td        (tn as below).
\* the squared distance of p to the line through p1 and p2: t is not clamped
getSquareLineDistance(p, p1, p2) ==
    LET dx == p2.x - p1.x
        dy == p2.y - p1.y
        tn == (p.x - p1.x) * dx + (p.y - p1.y) * dy
        td == dx * dx + dy * dy
        d1 == (p.x - p1.x) * (p.x - p1.x) + (p.y - p1.y) * (p.y - p1.y)
    IN  IF dx # 0 \/ dy # 0 THEN <<d1 * td - tn * tn, td>> ELSE <<d1, 1>>

getSquareSegmentDistance(p, p1, p2) ==
    LET dx == p2.x - p1.x
        dy == p2.y - p1.y
        tn == (p.x - p1.x) * dx + (p.y - p1.y) * dy
        td == dx * dx + dy * dy
        d1 == (p.x - p1.x) * (p.x - p1.x) + (p.y - p1.y) * (p.y - p1.y)
        d2 == (p.x - p2.x) * (p.x - p2.x) + (p.y - p2.y) * (p.y - p2.y)
    IN  IF dx # 0 \/ dy # 0
        THEN IF tn > td THEN <<d2, 1>>                     \* t > 1
             ELSE IF tn > 0 THEN <<d1 * td - tn * tn, td>> \* 0 < t <= 1
             ELSE <<d1, 1>>
        ELSE <<d1, 1>>

\* a > b for two such rationals
RatGreater(a, b) == a[1] * b[2] > b[1] * a[2]

\* a split exactly when the farthest point is off the chord but within
\* epsilon: the test turned round
WithinEpsilon(maxDist, eps10) ==
    /\ maxDist[1] > 0
    /\ maxDist[1] * 100 <= eps10 * eps10 * maxDist[2]

\* maxDist > epsilon * epsilon, epsilon = eps10 / 10
ExceedsEpsilon(maxDist, eps10) == maxDist[1] * 100 > eps10 * eps10 * maxDist[2]

\* The for loop of simplifyPath from index i on (1-based: i runs over
\* 2..Len-1): the first index of greatest distance, and that distance.
RECURSIVE FarthestFrom(_, _, _, _)
FarthestFrom(pts, i, index, maxDist) ==
    IF i >= Len(pts) THEN <<index, maxDist>>
    ELSE LET dist == getSquareSegmentDistance(pts[i], pts[1], pts[Len(pts)])
         IN  IF RatGreater(dist, maxDist)
             THEN FarthestFrom(pts, i + 1, i, dist)
             ELSE FarthestFrom(pts, i + 1, index, maxDist)

\* points.slice(index + 1): the right half without the farthest point
RightHalfSkipping(pts, index) == SubSeq(pts, index + 1, Len(pts))

\* points.slice(index)  (index is 1-based here)
RightHalf(pts, index) == SubSeq(pts, index, Len(pts))

\* points.slice(0, index + 1)
LeftHalf(pts, index) == SubSeq(pts, 1, index)

\* left.slice(0, left.length - 1).concat(right)
JoinHalves(left, right) == SubSeq(left, 1, Len(left) - 1) \o right

\* [points[0], points[last - 1]]: an off-by-one in the collapsed span
CollapseShort(pts) == <<pts[1], pts[Len(pts) - 1]>>

\* [points[0], points[last]]
Collapse(pts) == <<pts[1], pts[Len(pts)]>>

RECURSIVE simplifyPath(_, _)
simplifyPath(pts, eps10) ==
    IF Len(pts) < 3 THEN pts
    ELSE LET far == FarthestFrom(pts, 2, 1, <<0, 1>>)
             index == far[1]
         IN  IF ExceedsEpsilon(far[2], eps10)
             THEN JoinHalves(simplifyPath(LeftHalf(pts, index), eps10),
                             simplifyPath(RightHalf(pts, index), eps10))
             ELSE Collapse(pts)

(***************************************************************************)
(* Specification SpecSimplify: simplifyPath on every bounded path.         *)
(***************************************************************************)
(***************************************************************************)
(* ImageData.  data is the flat RGBA byte array; byte i of the code is     *)
(* data[i + 1] here.                                                       *)
(***************************************************************************)
Byte(data, i) == data[i + 1]

(***************************************************************************)
(* traceContours.                                                          *)
(***************************************************************************)
TRACE_ALPHA_THRESHOLD == 128

isOpaque(img, px, py) ==
    IF px < 0 \/ px >= img.width \/ py < 0 \/ py >= img.height THEN FALSE
    ELSE Byte(img.data, (py * img.width + px) * 4 + 3) > TRACE_ALPHA_THRESHOLD

directions ==
    << Pt(0, -1), Pt(1, -1), Pt(1, 0), Pt(1, 1),
       Pt(0, 1), Pt(-1, 1), Pt(-1, 0), Pt(-1, -1) >>

\* a scan that would take every opaque pixel for a boundary pixel
isBoundaryAlways(img, px, py) == TRUE

\* the boundary test, on orthogonal neighbours and the image edge
isBoundary(img, px, py) ==
    \/ px = 0 \/ py = 0 \/ px = img.width - 1 \/ py = img.height - 1
    \/ ~isOpaque(img, px + 1, py) \/ ~isOpaque(img, px - 1, py)
    \/ ~isOpaque(img, px, py + 1) \/ ~isOpaque(img, px, py - 1)

\* the same without the test of visited[index]
IsCandidateIgnoringVisited(img, vis, index) ==
    LET px == index % img.width
        py == index \div img.width
    IN  /\ isOpaque(img, px, py)
        /\ isBoundary(img, px, py)

\* the pixel at index is where the scan starts a walk
IsCandidate(img, vis, index) ==
    LET px == index % img.width
        py == index \div img.width
    IN  /\ vis[index + 1] = 0
        /\ isOpaque(img, px, py)
        /\ isBoundary(img, px, py)

\* the index of the first candidate at or after from, or -1: the iterations
\* of the two for loops that end in `continue`
RECURSIVE NextCandidate(_, _, _)
NextCandidate(img, vis, from) ==
    IF from >= img.width * img.height THEN -1
    ELSE IF IsCandidate(img, vis, from) THEN from
    ELSE NextCandidate(img, vis, from + 1)

\* startSearchDir = (dir + 6) % 8
StartSearchDir(d) == (d + 6) % 8

Neighbour(p, d) == Pt(p.x + directions[d + 1].x, p.y + directions[d + 1].y)

\* the inner for loop from iteration i on: the i in 0..7 of the first opaque
\* neighbour in rotational order, or -1 (foundNext stays false)
RECURSIVE SearchFrom(_, _, _, _)
SearchFrom(img, p, d, i) ==
    IF i >= 8 THEN -1
    ELSE LET n == Neighbour(p, (StartSearchDir(d) + i) % 8)
         IN  IF isOpaque(img, n.x, n.y) THEN i
             ELSE SearchFrom(img, p, d, i + 1)

FirstOpaque(img, p, d) == SearchFrom(img, p, d, 0)

RECURSIVE MarkVisited(_, _, _)
MarkVisited(vis, w, pth) ==
    IF pth = <<>> THEN vis
    ELSE MarkVisited([vis EXCEPT ![Head(pth).y * w + Head(pth).x + 1] = 1],
                     w, Tail(pth))

\* the number of (pixel, direction) pairs of the image: a walk that pushed
\* more points than this has been in one pair twice and repeats for ever
MaxWalk(img) == 8 * img.width * img.height

\* lines 563-581: the scan reaches a candidate and starts a walk from it
StartWalk ==
    /\ pc = "scan"
    /\ LET c == NextCandidate(mask, visited, scanIdx)
       IN  /\ c # -1
           /\ scanIdx' = c
           /\ startPoint' = Pt(c % mask.width, c \div mask.width)
           /\ currentPoint' = Pt(c % mask.width, c \div mask.width)
    /\ path' = <<>>
    /\ dir' = 0
    /\ pc' = "walk"
    /\ UNCHANGED <<mask, visited, paths>>

\* lines 605-610 and the x++ of the scan: what the end of a walk does
EndWalk(pth) ==
    /\ IF Len(pth) > 2
       THEN /\ paths' = Append(paths, pth)
            /\ visited' = MarkVisited(visited, mask.width, pth)
       ELSE UNCHANGED <<paths, visited>>
    /\ scanIdx' = scanIdx + 1
    /\ path' = pth
    /\ pc' = "scan"

\* one iteration of the do-while that finds a neighbour other than the start
WalkStep ==
    /\ pc = "walk"
    /\ Len(path) <= MaxWalk(mask)
    /\ LET i == FirstOpaque(mask, currentPoint, dir)
           nextDir == (StartSearchDir(dir) + i) % 8
           nextPoint == Neighbour(currentPoint, nextDir)
       IN  /\ i # -1
           /\ nextPoint # startPoint
           /\ path' = Append(path, currentPoint)
           /\ dir' = nextDir
           /\ currentPoint' = nextPoint
    /\ UNCHANGED <<mask, visited, paths, scanIdx, startPoint, pc>>

\* the iteration that steps back onto the start pixel: the loop ends
WalkClose ==
    /\ pc = "walk"
    /\ Len(path) <= MaxWalk(mask)
    /\ LET i == FirstOpaque(mask, currentPoint, dir)
           nextDir == (StartSearchDir(dir) + i) % 8
           nextPoint == Neighbour(currentPoint, nextDir)
       IN  /\ i # -1
           /\ nextPoint = startPoint
           /\ dir' = nextDir
           /\ currentPoint' = nextPoint
           /\ EndWalk(Append(path, currentPoint))
    /\ UNCHANGED <<mask, startPoint>>

\* the iteration that finds no opaque neighbour: break
WalkDeadEnd ==
    /\ pc = "walk"
    /\ Len(path) <= MaxWalk(mask)
    /\ FirstOpaque(mask, currentPoint, dir) = -1
    /\ EndWalk(Append(path, currentPoint))
    /\ UNCHANGED <<mask, startPoint, currentPoint, dir>>

\* the do-while has run through more states than the walk has: it never
\* ends, and path grows until the allocation fails
WalkDiverge ==
    /\ pc = "walk"
    /\ Len(path) > MaxWalk(mask)
    /\ pc' = "hung"
    /\ UNCHANGED <<mask, visited, paths, scanIdx, startPoint, currentPoint,
                   dir, path>>

\* line 613: the scan is over, traceContours returns paths
ReturnPaths ==
    /\ pc = "scan"
    /\ NextCandidate(mask, visited, scanIdx) = -1
    /\ scanIdx' = mask.width * mask.height
    /\ pc' = "traced"
    /\ UNCHANGED <<mask, visited, paths, startPoint, currentPoint, dir, path>>

(***************************************************************************)
(* quantizeAndGetColors.                                                   *)
(***************************************************************************)
ALPHA_THRESHOLD == 10
OPAQUE_THRESHOLD == 240
Q == 16
MIN_PIXEL_COUNT == 4

\* Math.floor(v / Q) * Q
QuantChannel(v) == (v \div Q) * Q

\* Math.floor(v / (Q*2)) * (Q*2)
QuantAlpha(v) == (v \div (Q * 2)) * (Q * 2)

\* a >= OPAQUE_THRESHOLD ? 255 : a
EffectiveAlpha(a) == IF a >= OPAQUE_THRESHOLD THEN 255 ELSE a

\* data[i + 3] > ALPHA_THRESHOLD
IsVisible(data, i) == Byte(data, i + 3) > ALPHA_THRESHOLD

\* the quantised colour of the pixel whose first byte is byte i
QuantPixel(data, i) ==
    [r |-> QuantChannel(Byte(data, i)),
     g |-> QuantChannel(Byte(data, i + 1)),
     b |-> QuantChannel(Byte(data, i + 2)),
     a |-> QuantAlpha(Byte(data, i + 3))]

\* a key without the alpha: `${r},${g},${b}`
ColorKeyWithoutAlpha(c) == <<c.r, c.g, c.b>>

\* the key of colorMap: `${r},${g},${b},${effectiveA}`
ColorKey(c) == <<c.r, c.g, c.b, EffectiveAlpha(c.a)>>

\* a lookup that sees the entry set last only
MapGetLast(map, key, k) ==
    IF map # <<>> /\ map[Len(map)].key = key THEN Len(map) ELSE 0

\* the position in map of the entry of key, or 0: colorMap.get(key)
RECURSIVE MapGet(_, _, _)
MapGet(map, key, k) ==
    IF k > Len(map) THEN 0
    ELSE IF map[k].key = key THEN k
    ELSE MapGet(map, key, k + 1)

\* the for loop of quantizeAndGetColors from byte i on; map is the Map in
\* insertion order, each entry with its key
RECURSIVE QuantizeFrom(_, _, _)
QuantizeFrom(data, i, map) ==
    IF i >= Len(data) THEN map
    ELSE IF IsVisible(data, i)
         THEN LET c == QuantPixel(data, i)
                  key == ColorKey(c)
                  k == MapGet(map, key, 1)
              IN  IF k = 0
                  THEN QuantizeFrom(data, i + 4,
                         Append(map, [key |-> key, r |-> c.r, g |-> c.g,
                                      b |-> c.b, a |-> c.a, count |-> 1]))
                  ELSE QuantizeFrom(data, i + 4,
                         [map EXCEPT ![k].count = @ + 1])
         ELSE QuantizeFrom(data, i + 4, map)

\* c.count > MIN_PIXEL_COUNT: the filter one too strict
IsSignificantStrict(c) == c.count > MIN_PIXEL_COUNT

\* c.count >= MIN_PIXEL_COUNT
IsSignificant(c) == c.count >= MIN_PIXEL_COUNT

StripKey(e) == [r |-> e.r, g |-> e.g, b |-> e.b, a |-> e.a, count |-> e.count]

RECURSIVE FilterSignificant(_)
FilterSignificant(map) ==
    IF map = <<>> THEN <<>>
    ELSE IF IsSignificant(Head(map))
         THEN <<StripKey(Head(map))>> \o FilterSignificant(Tail(map))
         ELSE FilterSignificant(Tail(map))

quantizeAndGetColors(img) == FilterSignificant(QuantizeFrom(img.data, 0, <<>>))

(***************************************************************************)
(* createColorMask.                                                        *)
(***************************************************************************)

\* only r, g and b are compared: the alpha test is left out
MaskMatchesAnyAlpha(data, i, target) ==
    /\ IsVisible(data, i)
    /\ LET c == QuantPixel(data, i)
       IN  c.r = target.r /\ c.g = target.g /\ c.b = target.b

\* the pixel whose first byte is byte i gets maskData[i + 3] = 255
MaskMatches(data, i, target) ==
    /\ IsVisible(data, i)
    /\ LET c == QuantPixel(data, i)
           currentMatches == c.r = target.r /\ c.g = target.g /\ c.b = target.b
           isTargetOpaque == target.a >= OPAQUE_THRESHOLD
           isCurrentOpaque == c.a >= OPAQUE_THRESHOLD
       IN  /\ currentMatches
           /\ \/ (isTargetOpaque /\ isCurrentOpaque)
              \/ c.a = target.a

\* lines 409-413: the branch taken when target and pixel are both opaque
CoarseMatch(data, i, target) ==
    LET c == QuantPixel(data, i)
        isTargetOpaque == target.a >= OPAQUE_THRESHOLD
        isCurrentOpaque == c.a >= OPAQUE_THRESHOLD
    IN  isTargetOpaque /\ isCurrentOpaque

createColorMask(img, target) ==
    [width |-> img.width, height |-> img.height,
     data |-> [i \in 1..Len(img.data) |->
                 IF (i - 1) % 4 = 3 /\ MaskMatches(img.data, i - 4, target)
                 THEN 255 ELSE 0]]

(***************************************************************************)
(* applyFastBlur and applyThreshold.                                       *)
(***************************************************************************)

\* a store that would drop the fraction of a / count
StoreMeanTruncated(a, count) == a \div count

\* the byte a Uint8ClampedArray stores for a / count (0 <= a <= 255 * count):
\* the nearest integer, a tie going to the even one
StoreMean(a, count) ==
    LET q == a \div count
        r == a % count
    IN  IF 2 * r < count THEN q
        ELSE IF 2 * r > count THEN q + 1
        ELSE IF q % 2 = 0 THEN q ELSE q + 1

\* the inner loop of the horizontal pass from offset i on: <<a, count>>
RECURSIVE RowWindow(_, _, _, _, _, _, _)
RowWindow(temp, w, px, py, radius, i, acc) ==
    IF i > radius THEN acc
    ELSE LET xi == px + i
         IN  IF xi >= 0 /\ xi < w
             THEN RowWindow(temp, w, px, py, radius, i + 1,
                    <<acc[1] + Byte(temp, (py * w + xi) * 4 + 3), acc[2] + 1>>)
             ELSE RowWindow(temp, w, px, py, radius, i + 1, acc)

\* the inner loop of the vertical pass from offset i on: <<a, count>>
RECURSIVE ColumnWindow(_, _, _, _, _, _, _, _)
ColumnWindow(temp, w, h, px, py, radius, i, acc) ==
    IF i > radius THEN acc
    ELSE LET yi == py + i
         IN  IF yi >= 0 /\ yi < h
             THEN ColumnWindow(temp, w, h, px, py, radius, i + 1,
                    <<acc[1] + Byte(temp, (yi * w + px) * 4 + 3), acc[2] + 1>>)
             ELSE ColumnWindow(temp, w, h, px, py, radius, i + 1, acc)

HorizontalPass(data, w, h, radius) ==
    [i \in 1..Len(data) |->
       IF (i - 1) % 4 = 3
       THEN LET px == ((i - 1) \div 4) % w
                py == ((i - 1) \div 4) \div w
                s == RowWindow(data, w, px, py, radius, -radius, <<0, 0>>)
            IN  StoreMean(s[1], s[2])
       ELSE data[i]]

VerticalPass(data, w, h, radius) ==
    [i \in 1..Len(data) |->
       IF (i - 1) % 4 = 3
       THEN LET px == ((i - 1) \div 4) % w
                py == ((i - 1) \div 4) \div w
                s == ColumnWindow(data, w, h, px, py, radius, -radius, <<0, 0>>)
            IN  StoreMean(s[1], s[2])
       ELSE data[i]]

applyFastBlur(img, radius) ==
    IF radius < 1 THEN img
    ELSE [img EXCEPT !.data =
            VerticalPass(HorizontalPass(img.data, img.width, img.height, radius),
                         img.width, img.height, radius)]

applyThreshold(img, threshold) ==
    [img EXCEPT !.data =
       [i \in 1..Len(img.data) |->
          IF (i - 1) % 4 = 3
          THEN (IF img.data[i] >= threshold THEN 255 ELSE 0)
          ELSE img.data[i]]]

(***************************************************************************)
(* traceImage.  tracingTolerance is kept in tenths.                        *)
(***************************************************************************)
DENOISE_THRESHOLD == 128

\* Math.ceil(tracingTolerance): every positive tolerance gets a radius
RoundToleranceUp(tol10) == (tol10 + 9) \div 10

\* Math.round(tracingTolerance)
RoundTolerance(tol10) == (tol10 + 5) \div 10

\* lines 650-656: the mask traceContours is given for a colour
MaskForColor(img, color, tol10) ==
    LET m == createColorMask(img, color)
    IN  IF tol10 > 0
        THEN applyThreshold(applyFastBlur(m, RoundTolerance(tol10)),
                            DENOISE_THRESHOLD)
        ELSE m

\* a.area - b.area as the comparator: ascending instead of descending
ComesBeforeAscending(a, b) == a.area < b.area

\* the comparator (a, b) => b.area - a.area is negative: a sorts before b
ComesBefore(a, b) == b.area - a.area < 0

\* s with e put after the last element that does not sort after it: the
\* step of a stable insertion sort
RECURSIVE InsertSorted(_, _)
InsertSorted(s, e) ==
    IF s = <<>> THEN <<e>>
    ELSE IF ComesBefore(e, Head(s)) THEN <<e>> \o s
    ELSE <<Head(s)>> \o InsertSorted(Tail(s), e)

\* Array.prototype.sort with that comparator (a stable sort)
RECURSIVE SortShapes(_)
SortShapes(s) ==
    IF s = <<>> THEN <<>>
    ELSE InsertSorted(SortShapes(SubSeq(s, 1, Len(s) - 1)), s[Len(s)])

\* a test that would keep the shape of every colour
HasContourOrNone(contours) == TRUE

\* contours.some(c => c.length > 1)
HasContour(contours) == \E k \in 1..Len(contours) : Len(contours[k]) > 1

\* lines 639-645 when quantisation leaves no colour: the first throw
RaiseNoColors ==
    /\ pc = "start"
    /\ quantizeAndGetColors(imageData) = <<>>
    /\ colors' = <<>>
    /\ pc' = "noColors"
    /\ UNCHANGED <<imageData, tracingTolerance, ci, allShapes, contourLists, traced>>
    /\ UNCHANGED <<mask, visited, paths, scanIdx, startPoint, currentPoint,
                   dir, path>>

\* lines 639-647 otherwise: the loop over the colours is entered
StartTracing ==
    /\ pc = "start"
    /\ quantizeAndGetColors(imageData) # <<>>
    /\ colors' = quantizeAndGetColors(imageData)
    /\ ci' = 1
    /\ allShapes' = <<>>
    /\ pc' = "color"
    /\ UNCHANGED <<imageData, tracingTolerance, contourLists, traced>>
    /\ UNCHANGED <<mask, visited, paths, scanIdx, startPoint, currentPoint,
                   dir, path>>

\* lines 649-658 up to the call of traceContours, and its lines 547-551
BeginColor ==
    /\ pc = "color"
    /\ ci <= Len(colors)
    /\ mask' = MaskForColor(imageData, colors[ci], tracingTolerance)
    /\ visited' = [i \in 1..(imageData.width * imageData.height) |-> 0]
    /\ paths' = <<>>
    /\ scanIdx' = 0
    /\ path' = <<>>
    /\ pc' = "scan"
    /\ UNCHANGED <<imageData, tracingTolerance, colors, ci, allShapes,
                   contourLists, traced>>
    /\ UNCHANGED <<startPoint, currentPoint, dir>>

\* traceContours returns (line 613) and lines 660-662 push the shape
EndColor ==
    /\ pc = "scan"
    /\ NextCandidate(mask, visited, scanIdx) = -1
    /\ allShapes' = IF HasContour(paths)
                    THEN Append(allShapes, [color |-> colors[ci],
                                            contours |-> paths,
                                            area |-> colors[ci].count])
                    ELSE allShapes
    /\ contourLists' = Append(contourLists, paths)
    /\ ci' = ci + 1
    /\ scanIdx' = mask.width * mask.height
    /\ pc' = "color"
    /\ UNCHANGED <<imageData, tracingTolerance, colors, traced>>
    /\ UNCHANGED <<mask, visited, paths, startPoint, currentPoint, dir, path>>

\* lines 665-667: the second throw
RaiseNoPaths ==
    /\ pc = "color"
    /\ ci > Len(colors)
    /\ allShapes = <<>>
    /\ pc' = "noPaths"
    /\ UNCHANGED <<imageData, tracingTolerance, colors, ci, allShapes,
                   contourLists, traced>>
    /\ UNCHANGED <<mask, visited, paths, scanIdx, startPoint, currentPoint,
                   dir, path>>

\* lines 669-676: sort and return
ReturnTraced ==
    /\ pc = "color"
    /\ ci > Len(colors)
    /\ allShapes # <<>>
    /\ allShapes' = SortShapes(allShapes)
    /\ traced' = [width |-> imageData.width, height |-> imageData.height,
                  shapes |-> SortShapes(allShapes)]
    /\ pc' = "returned"
    /\ UNCHANGED <<imageData, tracingTolerance, colors, ci, contourLists>>
    /\ UNCHANGED <<mask, visited, paths, scanIdx, startPoint, currentPoint,
                   dir, path>>

(***************************************************************************)
(* pathsToSvgData, toHex and generateSvg.  The strings are built as the    *)
(* code builds them.  Coordinates are integers, the stroke width is in     *)
(* tenths and simplification is in tenths.                                 *)
(***************************************************************************)
Digits == "0123456789abcdef"

\* the digit of value d, d in 0..15
Digit(d) == SubSeq(Digits, d + 1, d + 1)

\* n.toFixed(1) for an integer n >= 0
IntToFixed1(n) == ToString(n) \o ".0"

\* (t / 10).toFixed(1) for a number of t tenths
TenthsToFixed1(t) == ToString(t \div 10) \o "." \o Digit(t % 10)

\* (a / 255).toFixed(2): a / 255 rounded to hundredths (a * 100 / 255 is
\* never half way between two integers, 255 being odd)
AlphaToFixed2(a) ==
    LET hundredths == (a * 200 + 255) \div 510
    IN  ToString(hundredths \div 100) \o "."
            \o Digit((hundredths % 100) \div 10) \o Digit(hundredths % 10)

\* c.toString(16)
RECURSIVE ToString16(_)
ToString16(c) ==
    IF c < 16 THEN Digit(c) ELSE ToString16(c \div 16) \o Digit(c % 16)

\* s.padStart(n, '0')
RECURSIVE PadStart(_, _)
PadStart(s, n) == IF Len(s) >= n THEN s ELSE PadStart("0" \o s, n)

\* the digits without the padding: c.toString(16)
toHexUnpadded(c) == ToString16(c)

toHex(c) == PadStart(ToString16(c), 2)

\* s.trim(), for the white space the code can produce (the space)
RECURSIVE Trim(_)
Trim(s) ==
    IF s = "" THEN s
    ELSE IF SubSeq(s, 1, 1) = " " THEN Trim(SubSeq(s, 2, Len(s)))
    ELSE IF SubSeq(s, Len(s), Len(s)) = " " THEN Trim(SubSeq(s, 1, Len(s) - 1))
    ELSE s

\* `${p.x.toFixed(1)} ${p.y.toFixed(1)}`
PointText(p) == IntToFixed1(p.x) \o " " \o IntToFixed1(p.y)

\* path.slice(from - 1).map(...).join(' ')
RECURSIVE JoinPoints(_, _)
JoinPoints(pth, from) ==
    IF from > Len(pth) THEN ""
    ELSE IF from = Len(pth) THEN PointText(pth[from])
    ELSE PointText(pth[from]) \o " " \o JoinPoints(pth, from + 1)

\* a path of one point written like any other: path.length < 1
SubpathOfAnyPoint(pth) ==
    IF Len(pth) < 1 THEN ""
    ELSE "M" \o PointText(pth[1]) \o "L" \o JoinPoints(pth, 2) \o "Z"

\* the callback of paths.map in pathsToSvgData
Subpath(pth) ==
    IF Len(pth) < 2 THEN ""
    ELSE "M" \o PointText(pth[1]) \o "L" \o JoinPoints(pth, 2) \o "Z"

RECURSIVE pathsToSvgData(_)
pathsToSvgData(pths) ==
    IF pths = <<>> THEN ""
    ELSE Subpath(Head(pths)) \o pathsToSvgData(Tail(pths))

\* contours.map(path => simplifyPath(path, simplification))
SimplifiedContours(contours, simplification) ==
    [i \in 1..Len(contours) |-> simplifyPath(contours[i], simplification)]

StrokeAttrs(opts) ==
    IF opts.strokeEnabled
    THEN " stroke=\"" \o opts.strokeColor \o "\" stroke-width=\""
            \o TenthsToFixed1(opts.strokeWidth)
            \o "\" vector-effect=\"non-scaling-stroke\""
    ELSE ""

\* the callback of shapes.map in generateSvg
PathElement(shape, opts) ==
    LET svgPathData ==
            pathsToSvgData(SimplifiedContours(shape.contours, opts.simplification))
        hexColor == "#" \o toHex(shape.color.r) \o toHex(shape.color.g)
                        \o toHex(shape.color.b)
        opacity == AlphaToFixed2(shape.color.a)
    IN  IF Trim(svgPathData) = "" THEN ""
        ELSE "<path fill=\"" \o hexColor \o "\" fill-opacity=\"" \o opacity
                \o "\"" \o StrokeAttrs(opts) \o " fill-rule=\"evenodd\" d=\""
                \o svgPathData \o "\"/>"

\* the elements joined last shape first
RECURSIVE PathElementsReversed(_, _)
PathElementsReversed(shapes, opts) ==
    IF shapes = <<>> THEN ""
    ELSE PathElementsReversed(Tail(shapes), opts) \o PathElement(Head(shapes), opts)

RECURSIVE PathElements(_, _)
PathElements(shapes, opts) ==
    IF shapes = <<>> THEN ""
    ELSE PathElement(Head(shapes), opts) \o PathElements(Tail(shapes), opts)

SvgOpen(width, height) ==
    "<svg xmlns=\"http://www.w3.org/2000/svg\" viewBox=\"0 0 "
        \o ToString(width) \o " " \o ToString(height) \o "\">"

SvgClose == "</svg>"

generateSvg(tracedData, opts) ==
    LET pathElements == PathElements(tracedData.shapes, opts)
    IN  IF pathElements = ""
        THEN SvgOpen(tracedData.width, tracedData.height) \o SvgClose
        ELSE SvgOpen(tracedData.width, tracedData.height) \o pathElements
                \o SvgClose

\* the contours of a shape simplified where they are, as by
\* shape.contours = simplifiedContours
ContoursSimplifiedInPlace(contours, simplification) ==
    SimplifiedContours(contours, simplification)

\* what line 689 leaves in shape.contours: map, slice and concat build new
\* arrays, and simplifyPath hands back a path of fewer than 3 points as it is
ContoursAfterMap(contours, simplification) == contours

\* the TracedData argument after a call of generateSvg
TracedAfterGenerate(tracedData, opts) ==
    [tracedData EXCEPT !.shapes =
        [i \in 1..Len(tracedData.shapes) |->
            [tracedData.shapes[i] EXCEPT
                !.contours = ContoursAfterMap(@, opts.simplification)]]]

GenerateSvg ==
    /\ gpc = "input"
    /\ svgCode' = generateSvg(traced, options)
    /\ traced' = TracedAfterGenerate(traced, options)
    /\ gpc' = "generated"
    /\ UNCHANGED <<options, tracedCopy, simpVars, contourVars, app>>
    /\ UNCHANGED <<imageData, tracingTolerance, colors, ci, allShapes,
                   contourLists>>

\* the variables of simplifyPath's harness when it is not running
SimplifyIdle ==
    /\ points = <<>>
    /\ epsilon = 0
    /\ simplified = <<>>
    /\ resimplified = <<>>
    /\ spc = "idle"
    /\ coarser = 0
    /\ coarsened = <<>>

\* the variables of traceContours when it is not running
ContourIdle ==
    /\ mask = [width |-> 0, height |-> 0, data |-> <<>>]
    /\ visited = <<>>
    /\ paths = <<>>
    /\ scanIdx = 0
    /\ startPoint = Pt(0, 0)
    /\ currentPoint = Pt(0, 0)
    /\ dir = 0
    /\ path = <<>>
    /\ pc = "idle"

\* the variables of traceImage when it is not running
ImageIdle ==
    /\ imageData = [width |-> 0, height |-> 0, data |-> <<>>]
    /\ tracingTolerance = 0
    /\ colors = <<>>
    /\ ci = 0
    /\ allShapes = <<>>
    /\ contourLists = <<>>
    /\ traced = [width |-> 0, height |-> 0, shapes |-> <<>>]

\* the variables of generateSvg when it is not running
SvgIdle ==
    /\ options = [simplification |-> 0, strokeEnabled |-> FALSE,
                  strokeColor |-> "", strokeWidth |-> 0]
    /\ svgCode = ""
    /\ gpc = "idle"
    /\ tracedCopy = [width |-> 0, height |-> 0, shapes |-> <<>>]

\* the App component when it is not mounted
AppIdle == app = [mounted |-> FALSE]

SimplifyInit ==
    /\ ContourIdle
    /\ ImageIdle
    /\ SvgIdle
    /\ AppIdle
    /\ points \in InputPaths
    /\ epsilon \in Epsilons
    /\ simplified = <<>>
    /\ resimplified = <<>>
    /\ spc = "input"
    /\ coarser = epsilon
    /\ coarsened = <<>>

SimplifyOnce ==
    /\ spc = "input"
    /\ simplified' = simplifyPath(points, epsilon)
    /\ spc' = "once"
    /\ UNCHANGED <<points, epsilon, resimplified, coarser, coarsened>>
    /\ UNCHANGED <<contourVars, imageVars, svgVars, app>>

SimplifyAgain ==
    /\ spc = "once"
    /\ resimplified' = simplifyPath(simplified, epsilon)
    /\ spc' = "twice"
    /\ UNCHANGED <<points, epsilon, simplified, coarser, coarsened>>
    /\ UNCHANGED <<contourVars, imageVars, svgVars, app>>

\* the same path simplified with a second tolerance, not below the first
SimplifyCoarser ==
    /\ spc = "once"
    /\ \E e \in Epsilons :
          /\ e >= epsilon
          /\ coarser' = e
          /\ coarsened' = simplifyPath(points, e)
    /\ spc' = "coarser"
    /\ UNCHANGED <<points, epsilon, simplified, resimplified>>
    /\ UNCHANGED <<contourVars, imageVars, svgVars, app>>

SimplifyNext == SimplifyOnce \/ SimplifyAgain \/ SimplifyCoarser

SpecSimplify == SimplifyInit /\ [][SimplifyNext]_vars

(***************************************************************************)
(* Specification SpecMask: traceContours on every binary mask of up to     *)
(* MaskW x MaskH pixels, and on every mask of one more column and one more *)
(* row that holds a solid 3 x 3 block in its lower left corner, so that    *)
(* the pixel in the middle of the block has 8 opaque neighbours.           *)
(***************************************************************************)
\* the binary mask of w x h pixels whose opaque pixels are those of on
BinaryMask(w, h, on) ==
    [width |-> w, height |-> h,
     data |-> [i \in 1..(w * h * 4) |->
                 IF (i - 1) % 4 = 3 /\ ((i - 1) \div 4) \in on
                 THEN 255 ELSE 0]]

BlockW == MaskW + 1

BlockH == MaskH + 1

\* the indices of the pixels of the block: columns 0..2 of the last 3 rows
Block == {py * BlockW + px : px \in 0..2, py \in (BlockH - 3)..(BlockH - 1)}

MaskInit ==
    /\ SimplifyIdle
    /\ ImageIdle
    /\ SvgIdle
    /\ AppIdle
    /\ \/ \E w \in 1..MaskW, h \in 1..MaskH :
             \E on \in SUBSET (0..(w * h - 1)) : mask = BinaryMask(w, h, on)
       \/ \E on \in SUBSET ((0..(BlockW * BlockH - 1)) \ Block) :
             mask = BinaryMask(BlockW, BlockH, Block \cup on)
    /\ visited = [i \in 1..(mask.width * mask.height) |-> 0]
    /\ paths = <<>>
    /\ scanIdx = 0
    /\ startPoint = Pt(0, 0)
    /\ currentPoint = Pt(0, 0)
    /\ dir = 0
    /\ path = <<>>
    /\ pc = "scan"

MaskNext ==
    \/ (StartWalk /\ UNCHANGED <<simpVars, imageVars, svgVars, app>>)
    \/ (WalkStep /\ UNCHANGED <<simpVars, imageVars, svgVars, app>>)
    \/ (WalkClose /\ UNCHANGED <<simpVars, imageVars, svgVars, app>>)
    \/ (WalkDeadEnd /\ UNCHANGED <<simpVars, imageVars, svgVars, app>>)
    \/ (WalkDiverge /\ UNCHANGED <<simpVars, imageVars, svgVars, app>>)
    \/ (ReturnPaths /\ UNCHANGED <<simpVars, imageVars, svgVars, app>>)

SpecMask == MaskInit /\ [][MaskNext]_vars

(***************************************************************************)
(* Specification SpecImage: traceImage on                                  *)
(*  - every ImgW x ImgH image of two pixel values, for five pairs of       *)
(*    values, and every (ImgW + 1) x ImgH image of Clear and Red pixels,   *)
(*  - the solid Red rectangles of up to MaxRectW x MaxRectH pixels,        *)
(*  - the Red rings: a square of side inner + 2 * thick without its        *)
(*    centred inner x inner square, in a Clear margin,                     *)
(* each with every tolerance of Tolerances.                                *)
(***************************************************************************)
Clear == <<0, 0, 0, 0>>
Red == <<255, 0, 0, 255>>
RedSoft == <<250, 10, 5, 250>>    \* quantises to the colour Red quantises to
RedHalf == <<255, 0, 0, 100>>     \* Red's r, g, b at another alpha level
RedFaint == <<255, 0, 0, 10>>     \* alpha at the visibility threshold
Blue == <<0, 0, 255, 255>>

PixelPairs == { <<Clear, Red>>, <<Blue, Red>>, <<RedSoft, Red>>,
                <<RedHalf, Red>>, <<RedFaint, Red>> }

Tolerances == {0, 2, 10}          \* 0, 0.2 (rounds to radius 0), 1.0

\* the image of w x h pixels whose pixel at index k is pixels[k]
PixelImage(w, h, pixels) ==
    [width |-> w, height |-> h,
     data |-> [i \in 1..(w * h * 4) |->
                 pixels[(i - 1) \div 4][((i - 1) % 4) + 1]]]

TwoValued(w, h, pair, on) ==
    PixelImage(w, h, [k \in 0..(w * h - 1) |->
                        IF k \in on THEN pair[2] ELSE pair[1]])

SolidRect(w, h) == PixelImage(w, h, [k \in 0..(w * h - 1) |-> Red])

\* is pixel (px, py) on the ring that starts at (margin, margin)
OnRing(px, py, inner, thick, margin) ==
    LET outer == inner + 2 * thick
        rx == px - margin
        ry == py - margin
    IN  /\ rx >= 0 /\ rx < outer /\ ry >= 0 /\ ry < outer
        /\ ~(rx >= thick /\ rx < outer - thick /\ ry >= thick /\ ry < outer - thick)

RingSide(inner, thick, margin) == inner + 2 * thick + 2 * margin

Ring(inner, thick, margin) ==
    LET side == RingSide(inner, thick, margin)
    IN  PixelImage(side, side,
          [k \in 0..(side * side - 1) |->
             IF OnRing(k % side, k \div side, inner, thick, margin)
             THEN Red ELSE Clear])

InputImage(img) ==
    \/ \E pair \in PixelPairs : \E on \in SUBSET (0..(ImgW * ImgH - 1)) :
          img = TwoValued(ImgW, ImgH, pair, on)
    \/ \E on \in SUBSET (0..((ImgW + 1) * ImgH - 1)) :
          img = TwoValued(ImgW + 1, ImgH, <<Clear, Red>>, on)
    \/ \E w \in 1..MaxRectW, h \in 1..MaxRectH : img = SolidRect(w, h)
    \/ \E inner \in MinInner..MaxInner, thick \in 1..MaxThick, margin \in 0..MaxMargin :
          img = Ring(inner, thick, margin)

ImageInit ==
    /\ SimplifyIdle
    /\ SvgIdle
    /\ AppIdle
    /\ InputImage(imageData)
    /\ tracingTolerance \in Tolerances
    /\ colors = <<>>
    /\ ci = 0
    /\ allShapes = <<>>
    /\ contourLists = <<>>
    /\ traced = [width |-> 0, height |-> 0, shapes |-> <<>>]
    /\ mask = [width |-> 0, height |-> 0, data |-> <<>>]
    /\ visited = <<>>
    /\ paths = <<>>
    /\ scanIdx = 0
    /\ startPoint = Pt(0, 0)
    /\ currentPoint = Pt(0, 0)
    /\ dir = 0
    /\ path = <<>>
    /\ pc = "start"

ImageNext ==
    \/ (RaiseNoColors /\ UNCHANGED <<simpVars, svgVars, app>>)
    \/ (StartTracing /\ UNCHANGED <<simpVars, svgVars, app>>)
    \/ (BeginColor /\ UNCHANGED <<simpVars, svgVars, app>>)
    \/ (StartWalk /\ UNCHANGED <<simpVars, imageVars, svgVars, app>>)
    \/ (WalkStep /\ UNCHANGED <<simpVars, imageVars, svgVars, app>>)
    \/ (WalkClose /\ UNCHANGED <<simpVars, imageVars, svgVars, app>>)
    \/ (WalkDeadEnd /\ UNCHANGED <<simpVars, imageVars, svgVars, app>>)
    \/ (WalkDiverge /\ UNCHANGED <<simpVars, imageVars, svgVars, app>>)
    \/ (EndColor /\ UNCHANGED <<simpVars, svgVars, app>>)
    \/ (RaiseNoPaths /\ UNCHANGED <<simpVars, svgVars, app>>)
    \/ (ReturnTraced /\ UNCHANGED <<simpVars, svgVars, app>>)

SpecImage == ImageInit /\ [][ImageNext]_vars

(***************************************************************************)
(* Specification SpecSvg: generateSvg on every TracedData of up to         *)
(* MaxShapes shapes of up to MaxContours contours each, the contours       *)
(* drawn from SvgPaths, with every options value of SvgOptions.            *)
(***************************************************************************)
\* contours of 0, 1, 2, 3 and 4 points; the last is the trace of a 2 x 2
\* square, the one before has its middle point 1 away from its chord
SvgPaths ==
    { <<>>,
      <<Pt(0, 0)>>,
      <<Pt(0, 0), Pt(2, 0)>>,
      <<Pt(0, 0), Pt(1, 1), Pt(2, 0)>>,
      <<Pt(0, 0), Pt(1, 0), Pt(1, 1), Pt(0, 1)>> }

\* colours as quantizeAndGetColors returns them
SvgColors ==
    { [r |-> 240, g |-> 0, b |-> 0, a |-> 224, count |-> 4],
      [r |-> 0, g |-> 16, b |-> 240, a |-> 96, count |-> 9] }

SeqsUpTo(S, n) == UNION { [1..k -> S] : k \in 0..n }

SvgShapes ==
    { [color |-> c, contours |-> cs, area |-> c.count] :
        c \in SvgColors, cs \in SeqsUpTo(SvgPaths, MaxContours) }

SvgOptions ==
    { [simplification |-> s, strokeEnabled |-> e, strokeColor |-> "#000000",
       strokeWidth |-> 15] : s \in {0, 10}, e \in BOOLEAN }

\* a later call on the same TracedData with other options
RegenerateSvg ==
    /\ gpc \in {"generated", "regenerated"}
    /\ \E o \in SvgOptions :
          /\ o # options
          /\ options' = o
          /\ svgCode' = generateSvg(traced, o)
          /\ traced' = TracedAfterGenerate(traced, o)
    /\ gpc' = "regenerated"
    /\ UNCHANGED <<tracedCopy, simpVars, contourVars, app>>
    /\ UNCHANGED <<imageData, tracingTolerance, colors, ci, allShapes,
                   contourLists>>

SvgInit ==
    /\ SimplifyIdle
    /\ ContourIdle
    /\ AppIdle
    /\ imageData = [width |-> 0, height |-> 0, data |-> <<>>]
    /\ tracingTolerance = 0
    /\ colors = <<>>
    /\ ci = 0
    /\ allShapes = <<>>
    /\ contourLists = <<>>
    /\ \E w \in 1..SvgW, h \in 1..SvgH, n \in 0..MaxShapes :
          \E shapes \in [1..n -> SvgShapes] :
             traced = [width |-> w, height |-> h, shapes |-> shapes]
    /\ options \in SvgOptions
    /\ svgCode = ""
    /\ gpc = "input"
    /\ tracedCopy = traced

SvgNext == GenerateSvg \/ RegenerateSvg

SpecSvg == SvgInit /\ [][SvgNext]_vars

(***************************************************************************)
(* App (src/App.tsx).  The variable app is a record of the component's     *)
(* useState values and its isInitialMount ref, under their names in the    *)
(* code, and of what is pending around it: the debounce timer, the         *)
(* traceImage promises, the image loads.  A value that may be null is      *)
(* Null or Some(v).  Numbers of the sliders are in tenths.  An action is   *)
(* one event handler, timer callback or promise continuation, followed by  *)
(* the effects React runs after the render it causes.  The URL field and   *)
(* the list of images fetched from it (handleFetchUrlImages) are left out: *)
(* no other handler reads them.                                            *)
(***************************************************************************)
Null == <<>>

Some(v) == <<v>>

\* the pictures a user may choose; an image is [picture, cropped, id], id
\* standing for the identity of the UploadedImage object
Pictures == {"solid", "blank"}

AppTolerances == {10, 20}          \* 1.0 and 2.0, the initial value
AppSimplifications == {0, 20}      \* 0 and 2.0, the initial value
AppStrokeColors == {"#000000", "#ff0000"}
AppStrokeWidths == {10, 25}        \* 1.0, the initial value, and 2.5

\* what traceImage returns for a solid w x w square of (255, 0, 0, 255)
\* pixels, whatever the tolerance
TracedSquare(w, contour) ==
    [width |-> w, height |-> w,
     shapes |-> << [color |-> [r |-> 240, g |-> 0, b |-> 0, a |-> 224,
                               count |-> w * w],
                    contours |-> <<contour>>,
                    area |-> w * w] >>]

\* the outcome of traceImage(image.dataUrl, {tracingTolerance}): the solid
\* picture is a 3 x 3 square and its crop a 2 x 2 square; the blank picture
\* has no visible pixel
AppTrace(image, tol10) ==
    IF image.picture = "blank"
    THEN [ok |-> FALSE,
          message |-> "No significant colors found in the image. Try an image with a different background."]
    ELSE [ok |-> TRUE,
          data |-> IF image.cropped
                   THEN TracedSquare(2, <<Pt(0, 0), Pt(1, 0), Pt(1, 1), Pt(0, 1)>>)
                   ELSE TracedSquare(3, <<Pt(0, 0), Pt(1, 0), Pt(2, 0), Pt(2, 1),
                                          Pt(2, 2), Pt(1, 2), Pt(0, 2), Pt(0, 1)>>)]

\* lines 20-43: the first render
AppFirstRender ==
    [mounted |-> TRUE,
     sourceTab |-> "upload", stage |-> "upload",
     originalImage |-> Null, processedImage |-> Null,
     svgCode |-> Null, isLoading |-> FALSE, error |-> Null,
     tracedData |-> Null,
     simplificationLevel |-> 20, tracingTolerance |-> 20,
     strokeEnabled |-> FALSE, strokeColor |-> "#000000", strokeWidth |-> 10,
     isInitialMount |-> TRUE,
     timer |-> Null,       \* handler of line 93, as the last run of the effect left it
     timeouts |-> {},      \* the timeouts that are set and have not expired
     requests |-> <<>>,    \* the traceImage calls of runConversion, in order
     loads |-> {},         \* the pending reads of a chosen file or URL image
     cropLoads |-> {},     \* the pending image loads of handleCropAndConvert
     imageCount |-> 0]     \* the UploadedImage objects made so far

\* lines 48-53
OptionsOf(a) ==
    [simplification |-> a.simplificationLevel,
     strokeEnabled |-> a.strokeEnabled,
     strokeColor |-> a.strokeColor,
     strokeWidth |-> a.strokeWidth]

\* the body of the effect of lines 46-57
GenerateSvgEffect(a) ==
    IF a.tracedData # Null
    THEN [a EXCEPT !.svgCode = Some(generateSvg(a.tracedData[1].data, OptionsOf(a)))]
    ELSE a

\* the timeout of line 93: the image and the tolerance its callback
\* captured.  cause and supersedes are not in the code: cause is the
\* dependency whose change ran the effect ("image" or "tolerance"), and
\* supersedes is the cause of the pending timeout that the cleanup before
\* this run cleared ("none" when it cleared none).
Timeout(a, cause) ==
    [image |-> a.processedImage[1],
     tolerance |-> a.tracingTolerance,
     cause |-> cause,
     supersedes |-> IF a.timer # Null /\ a.timer[1] \in a.timeouts
                    THEN a.timer[1].cause ELSE "none"]

\* the body of the effect of lines 80-98 on the state c its cleanup left
TraceEffectBody(a, c, cause) ==
    IF c.isInitialMount THEN [c EXCEPT !.isInitialMount = FALSE]
    ELSE IF c.processedImage = Null THEN c
    ELSE [c EXCEPT !.isLoading = TRUE,
                   !.svgCode = Null,
                   !.timer = Some(Timeout(a, cause)),
                   !.timeouts = @ \cup {Timeout(a, cause)}]

\* the effect without the clearTimeout of line 97
TraceEffectWithoutCleanup(a, cause) ==
    TraceEffectBody(a, [a EXCEPT !.timer = Null], cause)

\* the effect of lines 80-98 run again: the cleanup of its last run (line
\* 97: clearTimeout(handler)), then its body
TraceEffect(a, cause) ==
    TraceEffectBody(a,
        [a EXCEPT !.timeouts = IF a.timer = Null THEN @ ELSE @ \ {a.timer[1]},
                  !.timer = Null],
        cause)

\* the dependency lists of the two effects (lines 57 and 98; runConversion
\* never changes)
SvgDeps(a) ==
    <<a.tracedData, a.simplificationLevel, a.strokeEnabled, a.strokeColor,
      a.strokeWidth>>

\* a dependency list of the trace effect that would also hold the options of
\* generateSvg
TraceDepsWithOptions(a) ==
    <<a.tracingTolerance, a.processedImage, a.simplificationLevel,
      a.strokeEnabled, a.strokeColor, a.strokeWidth>>

TraceDeps(a) == <<a.tracingTolerance, a.processedImage>>

\* the effects after the render that takes the component from old to new:
\* each effect whose dependencies changed, in the order of the code
AfterRender(old, new) ==
    LET e1 == IF SvgDeps(new) # SvgDeps(old) THEN GenerateSvgEffect(new) ELSE new
    IN  IF TraceDeps(new) # TraceDeps(old)
        THEN TraceEffect(e1, IF new.processedImage # old.processedImage
                             THEN "image" ELSE "tolerance")
        ELSE e1

\* the effects of the first render
AfterFirstRender(a) == TraceEffect(GenerateSvgEffect(a), "mount")

\* lines 60-68: runConversion up to its await.  by is not in the code: it is
\* "convert" for a call from a handler and the cause of the timeout for a
\* call from its callback.
runConversion(a, image, tolerance, by) ==
    [a EXCEPT !.isLoading = TRUE,
              !.error = Null,
              !.svgCode = Null,
              !.tracedData = Null,
              !.stage = "result",
              !.requests = Append(@, [image |-> image, tolerance |-> tolerance,
                                      by |-> by, status |-> "pending"])]

\* lines 69 and 75: the continuation of request r when traceImage resolved
TraceResolved(a, r, data) ==
    [a EXCEPT !.tracedData = Some([request |-> r, data |-> data]),
              !.isLoading = FALSE,
              !.requests[r].status = "resolved"]

\* lines 70-75: the continuation of request r when traceImage rejected
TraceRejected(a, r, message) ==
    [a EXCEPT !.error = Some("Failed to convert image. " \o message),
              !.isLoading = FALSE,
              !.requests[r].status = "rejected"]

\* lines 100-103
handleImageSelected(a, image) ==
    [a EXCEPT !.originalImage = Some(image), !.stage = "crop"]

\* lines 116-130
handleReset(a) ==
    [a EXCEPT !.originalImage = Null,
              !.processedImage = Null,
              !.svgCode = Null,
              !.error = Null,
              !.isLoading = FALSE,
              !.tracedData = Null,
              !.simplificationLevel = 20,
              !.tracingTolerance = 20,
              !.strokeEnabled = FALSE,
              !.strokeColor = "#000000",
              !.strokeWidth = 10,
              !.stage = "upload",
              !.isInitialMount = TRUE]

\* lines 298-312: the SvgDisplay with its sliders is rendered
SvgDisplayShown(a) == ~a.isLoading /\ a.error = Null /\ a.svgCode # Null

(***************************************************************************)
(* The specification of App: the component from its first render on, under *)
(* every order of user events, timer expiry and promise settlement.        *)
(***************************************************************************)
MaxImages == 2       \* UploadedImage objects made in one behaviour
MaxRequests == 3     \* traceImage calls made in one behaviour

PendingRequests(a) == {r \in 1..Len(a.requests) : a.requests[r].status = "pending"}

\* ImageUploader / UrlFetcher: the user picks a picture; reading it is
\* asynchronous.  Lines 105-106 for a URL image.
ChooseImage ==
    /\ app.mounted
    /\ app.stage = "upload"
    /\ ~app.isLoading
    /\ app.imageCount < MaxImages
    /\ \E p \in Pictures :
         LET image == [picture |-> p, cropped |-> FALSE, id |-> app.imageCount + 1]
             chosen == [app EXCEPT !.loads = @ \cup {[kind |-> app.sourceTab, image |-> image]},
                                   !.imageCount = @ + 1,
                                   !.error = IF app.sourceTab = "url" THEN Null ELSE @]
         IN  app' = AfterRender(app, chosen)
    /\ UNCHANGED <<simpVars, contourVars, imageVars, svgVars>>

\* the read of a chosen image ends: onImageUpload, or lines 108-109
ImageLoaded ==
    /\ app.mounted
    /\ \E l \in app.loads :
         app' = AfterRender(app, handleImageSelected([app EXCEPT !.loads = @ \ {l}], l.image))
    /\ UNCHANGED <<simpVars, contourVars, imageVars, svgVars>>

\* lines 110-113: imageUrlToDataUrl rejected
UrlImageFailed ==
    /\ app.mounted
    /\ \E l \in app.loads :
         /\ l.kind = "url"
         /\ app' = AfterRender(app,
                [app EXCEPT !.loads = @ \ {l},
                            !.error = Some("Failed to load image. Could not load the selected image.")])
    /\ UNCHANGED <<simpVars, contourVars, imageVars, svgVars>>

\* lines 205-212, from the tab buttons of lines 220-235
SetSourceTab ==
    /\ app.mounted
    /\ app.stage = "upload"
    /\ ~app.isLoading
    /\ \E tab \in {"upload", "url"} :
         /\ tab # app.sourceTab
         /\ app' = AfterRender(app, [app EXCEPT !.originalImage = Null, !.sourceTab = tab])
    /\ UNCHANGED <<simpVars, contourVars, imageVars, svgVars>>

\* the ImageCropper of lines 252-261 is rendered
CropperShown(a) == a.stage = "crop" /\ a.originalImage # Null

\* lines 132-136
ConvertFull ==
    /\ app.mounted
    /\ CropperShown(app)
    /\ Len(app.requests) < MaxRequests
    /\ app' = AfterRender(app,
           runConversion([app EXCEPT !.processedImage = app.originalImage],
                         app.originalImage[1], app.tracingTolerance, "convert"))
    /\ UNCHANGED <<simpVars, contourVars, imageVars, svgVars>>

\* lines 138-141 and 170: handleCropAndConvert starts loading the original;
\* its callbacks capture originalImage and tracingTolerance
CropAndConvert ==
    /\ app.mounted
    /\ CropperShown(app)
    /\ app.imageCount < MaxImages
    /\ app' = [app EXCEPT !.cropLoads = @ \cup {[original |-> app.originalImage[1],
                                                  tolerance |-> app.tracingTolerance,
                                                  id |-> app.imageCount + 1]},
                          !.imageCount = @ + 1]
    /\ UNCHANGED <<simpVars, contourVars, imageVars, svgVars>>

\* lines 142-166: image.onload with a canvas context
CropLoaded ==
    /\ app.mounted
    /\ Len(app.requests) < MaxRequests
    /\ \E c \in app.cropLoads :
         LET croppedImage == [picture |-> c.original.picture, cropped |-> TRUE, id |-> c.id]
         IN  app' = AfterRender(app,
                 runConversion([app EXCEPT !.cropLoads = @ \ {c},
                                           !.processedImage = Some(croppedImage)],
                               croppedImage, c.tolerance, "convert"))
    /\ UNCHANGED <<simpVars, contourVars, imageVars, svgVars>>

\* lines 147-150 (no canvas context) and 167-169 (image.onerror)
CropFailed ==
    /\ app.mounted
    /\ \E c \in app.cropLoads :
       \E message \in {"Could not create canvas context for cropping.",
                       "Failed to load image for cropping."} :
         app' = AfterRender(app, [app EXCEPT !.cropLoads = @ \ {c},
                                             !.error = Some(message)])
    /\ UNCHANGED <<simpVars, contourVars, imageVars, svgVars>>

\* lines 116-130, from the cropper (line 259) or from the Start Over button
\* of lines 263-278
Reset ==
    /\ app.mounted
    /\ \/ CropperShown(app)
       \/ app.stage = "result" /\ app.processedImage # Null /\ ~app.isLoading
    /\ app' = AfterRender(app, handleReset(app))
    /\ UNCHANGED <<simpVars, contourVars, imageVars, svgVars>>

\* the tolerance slider of SvgDisplay: setTracingTolerance
ChangeTolerance ==
    /\ app.mounted
    /\ SvgDisplayShown(app)
    /\ \E v \in AppTolerances :
         /\ v # app.tracingTolerance
         /\ app' = AfterRender(app, [app EXCEPT !.tracingTolerance = v])
    /\ UNCHANGED <<simpVars, contourVars, imageVars, svgVars>>

\* the simplification slider of SvgDisplay: setSimplificationLevel
ChangeSimplification ==
    /\ app.mounted
    /\ SvgDisplayShown(app)
    /\ \E v \in AppSimplifications :
         /\ v # app.simplificationLevel
         /\ app' = AfterRender(app, [app EXCEPT !.simplificationLevel = v])
    /\ UNCHANGED <<simpVars, contourVars, imageVars, svgVars>>

\* the stroke checkbox of SvgDisplay: setStrokeEnabled
ChangeStrokeEnabled ==
    /\ app.mounted
    /\ SvgDisplayShown(app)
    /\ app' = AfterRender(app, [app EXCEPT !.strokeEnabled = ~@])
    /\ UNCHANGED <<simpVars, contourVars, imageVars, svgVars>>

\* the stroke colour input of SvgDisplay: setStrokeColor
ChangeStrokeColor ==
    /\ app.mounted
    /\ SvgDisplayShown(app)
    /\ app.strokeEnabled
    /\ \E v \in AppStrokeColors :
         /\ v # app.strokeColor
         /\ app' = AfterRender(app, [app EXCEPT !.strokeColor = v])
    /\ UNCHANGED <<simpVars, contourVars, imageVars, svgVars>>

\* the stroke width slider of SvgDisplay: setStrokeWidth
ChangeStrokeWidth ==
    /\ app.mounted
    /\ SvgDisplayShown(app)
    /\ app.strokeEnabled
    /\ \E v \in AppStrokeWidths :
         /\ v # app.strokeWidth
         /\ app' = AfterRender(app, [app EXCEPT !.strokeWidth = v])
    /\ UNCHANGED <<simpVars, contourVars, imageVars, svgVars>>

\* lines 93-95: a timeout expires
TimerFires ==
    /\ app.mounted
    /\ Len(app.requests) < MaxRequests
    /\ \E h \in app.timeouts :
         app' = AfterRender(app,
             runConversion([app EXCEPT !.timeouts = @ \ {h}],
                           h.image, h.tolerance, h.cause))
    /\ UNCHANGED <<simpVars, contourVars, imageVars, svgVars>>

\* lines 68-76: a pending traceImage settles, in any order
TraceSettles ==
    /\ app.mounted
    /\ \E r \in PendingRequests(app) :
         LET outcome == AppTrace(app.requests[r].image, app.requests[r].tolerance)
         IN  app' = AfterRender(app,
                 IF outcome.ok THEN TraceResolved(app, r, outcome.data)
                 ELSE TraceRejected(app, r, outcome.message))
    /\ UNCHANGED <<simpVars, contourVars, imageVars, svgVars>>

AppInit ==
    /\ SimplifyIdle /\ ContourIdle /\ ImageIdle /\ SvgIdle
    /\ app = AfterFirstRender(AppFirstRender)

AppNext ==
    \/ ChooseImage \/ ImageLoaded \/ UrlImageFailed \/ SetSourceTab
    \/ ConvertFull \/ CropAndConvert \/ CropLoaded \/ CropFailed \/ Reset
    \/ ChangeTolerance \/ ChangeSimplification \/ ChangeStrokeEnabled
    \/ ChangeStrokeColor \/ ChangeStrokeWidth
    \/ TimerFires \/ TraceSettles

SpecApp == AppInit /\ [][AppNext]_vars

(***************************************************************************)
(* Notions the claims about traceImage are stated with.                    *)
(***************************************************************************)
PixelCount(img) == img.width * img.height

\* the pixels (by index) whose alpha is above the visibility threshold
VisiblePixels(img) ==
    {k \in 0..(PixelCount(img) - 1) : Byte(img.data, 4 * k + 3) > ALPHA_THRESHOLD}

\* the key of the quantisation bucket of pixel k
BucketOf(img, k) == ColorKey(QuantPixel(img.data, 4 * k))

\* the visible pixels that share the bucket of pixel k
BucketMembers(img, k) ==
    {j \in VisiblePixels(img) : BucketOf(img, j) = BucketOf(img, k)}

\* pixel k is visible and its bucket has at least the minimum count
IsRetainedPixel(img, k) ==
    /\ k \in VisiblePixels(img)
    /\ Cardinality(BucketMembers(img, k)) >= MIN_PIXEL_COUNT

\* the pixels (by index) a mask marks opaque
OpaquePixels(m) ==
    {k \in 0..(PixelCount(m) - 1) : Byte(m.data, 4 * k + 3) = 255}

\* traceImage has ended, or will never end
Finished == pc \in {"returned", "noColors", "noPaths", "hung"}

PointSet(pth) == {pth[k] : k \in 1..Len(pth)}

(***************************************************************************)
(* C1: traceContours terminates on every binary mask: every walk ends, by  *)
(* coming back to its start pixel or at a pixel without opaque neighbour,  *)
(* so the scan reaches the end of the mask.                                *)
(***************************************************************************)
C1_WalkEnds == pc # "hung" /\ (pc = "walk" => Len(path) <= MaxWalk(mask))

\* the mask of the failing input: a diamond of six pixels around a hole,
\* with a seventh pixel attached inside
C1_FailingMask ==
    BinaryMask(4, 3, {1, 2, 4, 5, 7, 9, 10})

\* traceContours never returns on that mask
C1_HangsOnFailingMask == mask = C1_FailingMask /\ pc = "hung"

(***************************************************************************)
(* C2: a buffer whose only visible content is an opaque one-colour ring    *)
(* (hole side >= 3, thickness >= 1) traces, without denoising, to exactly  *)
(* one shape of exactly two contours, the first on the outer boundary of   *)
(* the ring and the second around its hole.                                *)
(***************************************************************************)
IsRingOf(img, inner, thick, margin) == img = Ring(inner, thick, margin)

\* the pixels of the ring on its outer edge
OuterEdge(inner, thick, margin) ==
    LET outer == inner + 2 * thick
    IN  {Pt(px, py) : px \in margin..(margin + outer - 1),
                      py \in margin..(margin + outer - 1)} \cap
        {p \in [x : 0..(RingSide(inner, thick, margin) - 1),
                y : 0..(RingSide(inner, thick, margin) - 1)] :
            \/ p.x = margin \/ p.x = margin + outer - 1
            \/ p.y = margin \/ p.y = margin + outer - 1}

InHole(p, inner, thick, margin) ==
    /\ p.x >= margin + thick /\ p.x < margin + thick + inner
    /\ p.y >= margin + thick /\ p.y < margin + thick + inner

\* p is a ring pixel with a hole pixel among its 8 neighbours
TouchesHole(p, inner, thick, margin) ==
    /\ OnRing(p.x, p.y, inner, thick, margin)
    /\ \E d \in 0..7 : InHole(Neighbour(p, d), inner, thick, margin)

\* p is a ring pixel with a hole pixel among its 4 orthogonal neighbours
BordersHole(p, inner, thick, margin) ==
    /\ OnRing(p.x, p.y, inner, thick, margin)
    /\ \E d \in {0, 2, 4, 6} : InHole(Neighbour(p, d), inner, thick, margin)

RingTracedAsTwoContours(inner, thick, margin) ==
    /\ pc = "returned"
    /\ Len(traced.shapes) = 1
    /\ LET cs == traced.shapes[1].contours
           side == RingSide(inner, thick, margin)
       IN  /\ Len(cs) = 2
           /\ PointSet(cs[1]) = OuterEdge(inner, thick, margin)
           /\ \A p \in PointSet(cs[2]) : TouchesHole(p, inner, thick, margin)
           /\ \A p \in [x : 0..(side - 1), y : 0..(side - 1)] :
                 BordersHole(p, inner, thick, margin) => p \in PointSet(cs[2])

C2_RingTwoContours ==
    \A inner \in MinInner..MaxInner, thick \in 1..MaxThick, margin \in 0..MaxMargin :
        (Finished /\ tracingTolerance = 0 /\ IsRingOf(imageData, inner, thick, margin))
            => RingTracedAsTwoContours(inner, thick, margin)

\* what does hold: the rings of thickness 2 and more
C2_ThickRingTwoContours ==
    \A inner \in MinInner..MaxInner, thick \in 2..MaxThick, margin \in 0..MaxMargin :
        (Finished /\ tracingTolerance = 0 /\ IsRingOf(imageData, inner, thick, margin))
            => RingTracedAsTwoContours(inner, thick, margin)

(***************************************************************************)
(* C3: a buffer that is all one opaque colour, W x H with W * H >= 4,      *)
(* traces to exactly one shape of area W * H with exactly one contour, and *)
(* the turning points of that contour simplified with a small epsilon are  *)
(* the four corner pixels of the rectangle.                                *)
(***************************************************************************)
SmallEpsilons == {0, 5}

IsSolidOpaque(img) ==
    /\ PixelCount(img) > 0
    /\ Byte(img.data, 3) = 255
    /\ \A k \in 0..(PixelCount(img) - 1) : \A ch \in 0..3 :
          Byte(img.data, 4 * k + ch) = Byte(img.data, ch)

Corners(img) ==
    { Pt(0, 0), Pt(img.width - 1, 0),
      Pt(0, img.height - 1), Pt(img.width - 1, img.height - 1) }

\* the points of the closed polygon pth at which its direction changes
TurningPoints(pth) ==
    LET n == Len(pth)
        prev(k) == pth[IF k = 1 THEN n ELSE k - 1]
        next(k) == pth[IF k = n THEN 1 ELSE k + 1]
        ux(k) == pth[k].x - prev(k).x
        uy(k) == pth[k].y - prev(k).y
        vx(k) == next(k).x - pth[k].x
        vy(k) == next(k).y - pth[k].y
        straight(k) == /\ ux(k) * vy(k) - uy(k) * vx(k) = 0
                       /\ ux(k) * vx(k) + uy(k) * vy(k) > 0
    IN  {pth[k] : k \in {j \in 1..n : ~straight(j)}}

C3_SolidRectangle ==
    (Finished /\ IsSolidOpaque(imageData) /\ PixelCount(imageData) >= 4) =>
        /\ pc = "returned"
        /\ Len(traced.shapes) = 1
        /\ traced.shapes[1].area = imageData.width * imageData.height
        /\ Len(traced.shapes[1].contours) = 1
        /\ \A e \in SmallEpsilons :
              TurningPoints(simplifyPath(traced.shapes[1].contours[1], e))
                  = Corners(imageData)

\* a rectangle with interior pixels, traced after denoising
C3_Witness ==
    /\ pc = "returned"
    /\ IsSolidOpaque(imageData)
    /\ imageData.width >= 4 /\ imageData.height >= 3
    /\ tracingTolerance = 10
    /\ Len(simplifyPath(traced.shapes[1].contours[1], 5)) = 5

(***************************************************************************)
(* C4: with Q the colours quantizeAndGetColors returns, (a) a pixel is     *)
(* opaque in createColorMask(image, c) for some c of Q exactly when its    *)
(* alpha is above the visibility threshold and its bucket has at least the *)
(* minimum count, and (b) no pixel is opaque in the masks of two colours   *)
(* of Q.                                                                   *)
(***************************************************************************)
C4_MaskPartition ==
    (pc = "color" /\ ci = 1) =>
        /\ colors = quantizeAndGetColors(imageData)
        /\ \A k \in 0..(PixelCount(imageData) - 1) :
              (\E c \in 1..Len(colors) :
                  k \in OpaquePixels(createColorMask(imageData, colors[c])))
              <=> IsRetainedPixel(imageData, k)
        /\ \A c1, c2 \in 1..Len(colors) :
              c1 # c2 =>
                 OpaquePixels(createColorMask(imageData, colors[c1])) \cap
                 OpaquePixels(createColorMask(imageData, colors[c2])) = {}

\* two retained colours of the same r, g, b that differ in alpha only
C4_Witness ==
    /\ pc = "color" /\ ci = 1
    /\ Len(colors) = 2
    /\ colors[1].r = colors[2].r /\ colors[1].g = colors[2].g
    /\ colors[1].b = colors[2].b
    /\ OpaquePixels(createColorMask(imageData, colors[2])) # {}

(***************************************************************************)
(* C5: whenever traceImage returns, the shapes are in descending order of  *)
(* area, the area of a shape being the number of pixels of its colour's    *)
(* quantisation bucket.                                                    *)
(***************************************************************************)
\* the number of visible pixels whose bucket is that of colour c
BucketSize(img, c) ==
    Cardinality({k \in VisiblePixels(img) : BucketOf(img, k) = ColorKey(c)})

C5_AreaDescending ==
    pc = "returned" =>
        /\ \A k \in 1..Len(traced.shapes) :
              traced.shapes[k].area = BucketSize(imageData, traced.shapes[k].color)
        /\ \A k \in 1..(Len(traced.shapes) - 1) :
              traced.shapes[k].area >= traced.shapes[k + 1].area

\* two shapes, the larger one found second by the scan
C5_Witness ==
    /\ pc = "returned"
    /\ Len(traced.shapes) = 2
    /\ traced.shapes[1].area > traced.shapes[2].area
    /\ traced.shapes[1].color = colors[2]

(***************************************************************************)
(* C6: traceImage fails with the 'no significant colors' error exactly     *)
(* when no quantisation bucket is retained, and then before any mask is    *)
(* built and any contour traced.                                           *)
(***************************************************************************)
NoBucketRetained(img) ==
    \A k \in 0..(PixelCount(img) - 1) : ~IsRetainedPixel(img, k)

C6_NoColors ==
    /\ pc # "start" => (pc = "noColors" <=> NoBucketRetained(imageData))
    /\ pc = "noColors" =>
          /\ mask.data = <<>>
          /\ visited = <<>>
          /\ paths = <<>> /\ path = <<>>
          /\ contourLists = <<>>
          /\ allShapes = <<>>

\* the error on a buffer whose visible pixels are one too few for a bucket
C6_Witness ==
    /\ pc = "noColors"
    /\ Cardinality(VisiblePixels(imageData)) = MIN_PIXEL_COUNT - 1

(***************************************************************************)
(* C7: when at least one colour is retained, traceImage raises 'no         *)
(* traceable paths' if and only if the contour list of every retained      *)
(* colour is empty, and only after all colours were attempted; in every    *)
(* other case it returns a TracedData whose shapes are exactly the colours *)
(* that produced at least one contour.                                     *)
(***************************************************************************)
\* the colours (by position in colors) whose contour list is not empty
Productive == {k \in 1..Len(contourLists) : contourLists[k] # <<>>}

ShapesAreProductiveColours ==
    /\ Len(traced.shapes) = Cardinality(Productive)
    /\ \A k \in Productive :
          \E s \in 1..Len(traced.shapes) :
             /\ traced.shapes[s].color = colors[k]
             /\ traced.shapes[s].contours = contourLists[k]

C7_ExceptHang ==
    /\ pc = "noPaths" =>
          /\ Len(contourLists) = Len(colors)
          /\ Productive = {}
    /\ pc = "returned" =>
          /\ Len(contourLists) = Len(colors)
          /\ Productive # {}
          /\ ShapesAreProductiveColours

C7_NoPathsOrReturn ==
    /\ C7_ExceptHang
    /\ (Finished /\ colors # <<>>) => pc \in {"noPaths", "returned"}

(***************************************************************************)
(* C8: generateSvg always returns a string, and when no shape produces     *)
(* path data (the shape list is empty, or every contour of every shape     *)
(* has fewer than two points) the string is the container whose viewBox    *)
(* is "0 0 width height" with nothing inside; and only then.               *)
(***************************************************************************)
\* sub occurs in s
Occurs(sub, s) ==
    \E i \in 1..(Len(s) - Len(sub) + 1) : SubSeq(s, i, i + Len(sub) - 1) = sub

\* every contour of every shape of td has fewer than two points
AllDegenerate(td) ==
    \A i \in 1..Len(td.shapes) :
        \A j \in 1..Len(td.shapes[i].contours) :
            Len(td.shapes[i].contours[j]) < 2

EmptyContainer(td) ==
    "<svg xmlns=\"http://www.w3.org/2000/svg\" viewBox=\"0 0 "
        \o ToString(td.width) \o " " \o ToString(td.height) \o "\"></svg>"

C8_AlwaysMarkup ==
    gpc = "generated" =>
        /\ Len(svgCode) > 0
        /\ Occurs("viewBox=\"0 0 " \o ToString(traced.width) \o " "
                      \o ToString(traced.height) \o "\"", svgCode)
        /\ AllDegenerate(traced) <=> svgCode = EmptyContainer(traced)
        /\ AllDegenerate(traced) <=> ~Occurs("<path", svgCode)

\* two shapes, with contours, and every contour degenerate
C8_Witness ==
    /\ gpc = "generated"
    /\ Len(traced.shapes) = 2
    /\ \A i \in 1..2 : Len(traced.shapes[i].contours) = 2
    /\ \E i \in 1..2 : \E j \in 1..2 : Len(traced.shapes[i].contours[j]) = 1
    /\ AllDegenerate(traced)
    /\ svgCode = EmptyContainer(traced)

(***************************************************************************)
(* C11: for one path and two tolerances e1 <= e2, simplifyPath with e2     *)
(* returns no more points than simplifyPath with e1.                       *)
(***************************************************************************)
C11_Monotone ==
    (spc = "coarser" /\ epsilon <= coarser) =>
        Len(coarsened) <= Len(simplified)

\* both tolerances shorten the path, the second more than the first
C11_Witness ==
    /\ spc = "coarser"
    /\ epsilon < coarser
    /\ Len(simplified) < Len(points)
    /\ Len(coarsened) < Len(simplified)

(***************************************************************************)
(* C12: every pixel whose alpha is at or above the opaque threshold is     *)
(* counted in a bucket whose key alpha is 255; such pixels of equal        *)
(* quantised r, g, b share that bucket; and createColorMask for the        *)
(* bucket's colour takes the coarse-match branch and marks each of them.   *)
(***************************************************************************)
\* the pixels (by index) whose alpha is at or above the opaque threshold
NearOpaquePixels(img) ==
    {k \in 0..(PixelCount(img) - 1) : Byte(img.data, 4 * k + 3) >= OPAQUE_THRESHOLD}

SameQuantisedRgb(img, j, k) ==
    /\ QuantPixel(img.data, 4 * j).r = QuantPixel(img.data, 4 * k).r
    /\ QuantPixel(img.data, 4 * j).g = QuantPixel(img.data, 4 * k).g
    /\ QuantPixel(img.data, 4 * j).b = QuantPixel(img.data, 4 * k).b

\* the near-opaque pixels of equal quantised r, g, b share a bucket, and the
\* mask of a returned colour of that bucket marks each of them
NearOpaqueGrouped(img, cols) ==
    /\ \A j, k \in NearOpaquePixels(img) :
          SameQuantisedRgb(img, j, k) => BucketOf(img, j) = BucketOf(img, k)
    /\ \A k \in NearOpaquePixels(img) :
          \A c \in 1..Len(cols) :
             ColorKey(cols[c]) = BucketOf(img, k) =>
                k \in OpaquePixels(createColorMask(img, cols[c]))

C12_OpaqueCollapse ==
    (pc = "color" /\ ci = 1) =>
        /\ NearOpaqueGrouped(imageData, colors)
        /\ \A k \in NearOpaquePixels(imageData) :
              /\ BucketOf(imageData, k)[4] = 255
              /\ \A c \in 1..Len(colors) :
                    ColorKey(colors[c]) = BucketOf(imageData, k) =>
                       CoarseMatch(imageData.data, 4 * k, colors[c])

\* C12, what does hold: the grouping and the marking, without the key
\* alpha 255 and without the coarse-match branch
C12_GroupedByQuantisation ==
    (pc = "color" /\ ci = 1) => NearOpaqueGrouped(imageData, colors)

\* C12: no pixel is ever given the key alpha 255, no mask ever takes the
\* coarse-match branch
C12_CollapseIsDead ==
    (pc = "color" /\ ci = 1) =>
        \A k \in VisiblePixels(imageData) :
           /\ BucketOf(imageData, k)[4] # 255
           /\ \A c \in 1..Len(colors) :
                 ~CoarseMatch(imageData.data, 4 * k, colors[c])

(***************************************************************************)
(* C13: quantizeAndGetColors returns one entry per (r, g, b, effective     *)
(* alpha) key found among the visible pixels, in the order in which the    *)
(* row-major scan first meets each key; the count of an entry is the       *)
(* number of visible pixels of its key; keys of fewer than 4 pixels have   *)
(* no entry; no two entries have the same key.                             *)
(***************************************************************************)
\* the first visible pixel of the row-major scan whose bucket has key
FirstOccurrence(img, key) ==
    CHOOSE k \in VisiblePixels(img) :
        /\ BucketOf(img, k) = key
        /\ \A j \in VisiblePixels(img) : BucketOf(img, j) = key => k <= j

C13_OneEntryPerKey ==
    (pc = "color" /\ ci = 1) =>
        /\ \A c \in 1..Len(colors) :
              /\ \E k \in VisiblePixels(imageData) :
                    BucketOf(imageData, k) = ColorKey(colors[c])
              /\ colors[c].count = BucketSize(imageData, colors[c])
              /\ colors[c].count >= 4
        /\ \A k \in VisiblePixels(imageData) :
              Cardinality(BucketMembers(imageData, k)) >= 4 =>
                 \E c \in 1..Len(colors) :
                    ColorKey(colors[c]) = BucketOf(imageData, k)
        /\ \A c1, c2 \in 1..Len(colors) :
              c1 < c2 =>
                 /\ ColorKey(colors[c1]) # ColorKey(colors[c2])
                 /\ FirstOccurrence(imageData, ColorKey(colors[c1]))
                       < FirstOccurrence(imageData, ColorKey(colors[c2]))

\* two entries, their pixels interleaved in the scan
C13_Witness ==
    /\ pc = "color" /\ ci = 1
    /\ Len(colors) = 2
    /\ \E j, k, l \in VisiblePixels(imageData) :
          /\ j < k /\ k < l
          /\ BucketOf(imageData, j) = ColorKey(colors[1])
          /\ BucketOf(imageData, k) = ColorKey(colors[2])
          /\ BucketOf(imageData, l) = ColorKey(colors[1])

\* one entry, met by the scan after a key that has too few pixels
C13_WitnessDiscarded ==
    /\ pc = "color" /\ ci = 1
    /\ Len(colors) = 1
    /\ \E k \in VisiblePixels(imageData) :
          /\ BucketOf(imageData, k) # ColorKey(colors[1])
          /\ k < FirstOccurrence(imageData, ColorKey(colors[1]))

(***************************************************************************)
(* C14: applyFastBlur with a radius of 0 or less returns its argument with *)
(* every byte unchanged, and traceImage with a tracing tolerance that      *)
(* rounds to radius 0 traces exactly the mask createColorMask built.       *)
(***************************************************************************)
\* the radii below 1 the blur is tried with
NoBlurRadii == {-1, 0}

C14_DenoiseNoOp ==
    pc \in {"scan", "walk"} =>
        /\ \A r \in NoBlurRadii :
              /\ applyFastBlur(mask, r) = mask
              /\ applyFastBlur(imageData, r) = imageData
        /\ tracingTolerance < 5 =>
              mask = createColorMask(imageData, colors[ci])

\* a tolerance above 0 that rounds to 0, on a mask that radius 1 would
\* have changed
C14_Witness ==
    /\ pc = "scan"
    /\ tracingTolerance > 0 /\ tracingTolerance < 5
    /\ OpaquePixels(mask) # {}
    /\ applyThreshold(applyFastBlur(mask, 1), DENOISE_THRESHOLD) # mask

AppTraceIsTraceImage ==
    /\ \A cropped \in BOOLEAN :
          LET w == IF cropped THEN 2 ELSE 3
          IN  (pc = "returned" /\ imageData = SolidRect(w, w)) =>
                 /\ AppTrace([picture |-> "solid", cropped |-> cropped], tracingTolerance).ok
                 /\ traced = AppTrace([picture |-> "solid", cropped |-> cropped],
                                      tracingTolerance).data
    /\ (Finished /\ VisiblePixels(imageData) = {}) =>
          /\ pc = "noColors"
          /\ ~AppTrace([picture |-> "blank"], tracingTolerance).ok

(***************************************************************************)
(* C16: in App, a change of simplificationLevel, strokeEnabled,            *)
(* strokeColor or strokeWidth re-runs generateSvg on the current           *)
(* tracedData, starts no traceImage call (neither at once nor through the  *)
(* debounce timer) and leaves tracedData alone; a traceImage call starts,  *)
(* and a timer is set, only in a step that changes tracingTolerance or the *)
(* processed image, or when a timer set by such a step expires.            *)
(***************************************************************************)
OptionChange ==
    ChangeSimplification \/ ChangeStrokeEnabled \/ ChangeStrokeColor
        \/ ChangeStrokeWidth

TraceStarted == Len(app'.requests) > Len(app.requests)

TimerSet == app'.timeouts \ app.timeouts # {}

TimerExpired ==
    \E h \in app.timeouts :
        /\ app'.timeouts = app.timeouts \ {h}
        /\ app'.requests = Append(app.requests,
               [image |-> h.image, tolerance |-> h.tolerance, by |-> h.cause,
                status |-> "pending"])

\* C16: an option change only regenerates the markup; traces start with a
\* change of tolerance or processed image
C16_OnlySerialization ==
    [][ /\ OptionChange =>
             /\ OptionsOf(app') # OptionsOf(app)
             /\ app'.requests = app.requests
             /\ app'.timer = app.timer
             /\ app'.timeouts = app.timeouts
             /\ app'.tracedData = app.tracedData
             /\ app.tracedData # Null
             /\ app'.svgCode = Some(generateSvg(app.tracedData[1].data, OptionsOf(app')))
        /\ TraceStarted => (TraceDeps(app') # TraceDeps(app) \/ TimerExpired)
        /\ TimerSet => TraceDeps(app') # TraceDeps(app) ]_vars

\* the options were changed and the markup shown is that of the same trace
\* under the new options
C16_Witness ==
    /\ app.simplificationLevel = 0
    /\ app.strokeEnabled
    /\ app.strokeWidth = 25
    /\ app.tracedData # Null
    /\ app.svgCode = Some(generateSvg(app.tracedData[1].data, OptionsOf(app)))
    /\ Len(app.requests) = 1

(***************************************************************************)
(* C17: stale trace results are discarded.  If request B was started after *)
(* request A with a newer tolerance or image, and both have settled with   *)
(* B resolved, then tracedData is not the result of A.  (tracedData being  *)
(* A's while a later B has resolved means that A settled after B: the      *)
(* start of B set tracedData to null and B's continuation installed B's.)  *)
(***************************************************************************)
Superseded(a, ra, rb) ==
    /\ ra < rb
    /\ a.requests[ra].status # "pending"
    /\ a.requests[rb].status = "resolved"
    /\ \/ a.requests[ra].image # a.requests[rb].image
       \/ a.requests[ra].tolerance # a.requests[rb].tolerance

\* C17: tracedData is never the result of a superseded request
C17_StaleDiscarded ==
    \A ra, rb \in 1..Len(app.requests) :
        Superseded(app, ra, rb) =>
            (app.tracedData = Null \/ app.tracedData[1].request # ra)

\* what the code guarantees instead: tracedData is the result of the request
\* that resolved last, whenever it was started
C17_LastSettledWins ==
    app.tracedData # Null =>
        /\ app.tracedData[1].request \in 1..Len(app.requests)
        /\ app.requests[app.tracedData[1].request].status = "resolved"
        /\ app.tracedData[1].data =
               AppTrace(app.requests[app.tracedData[1].request].image,
                        app.requests[app.tracedData[1].request].tolerance).data

\* the stale result is on screen: the markup shown is that of the older
\* request while the tolerance of the slider is the one of the newer
C17_StaleShown ==
    \E ra, rb \in 1..Len(app.requests) :
        /\ Superseded(app, ra, rb)
        /\ app.tracedData # Null
        /\ app.tracedData[1].request = ra
        /\ app.requests[ra].tolerance # app.tracingTolerance
        /\ app.requests[rb].tolerance = app.tracingTolerance
        /\ SvgDisplayShown(app)

(***************************************************************************)
(* C18: in the list returned by traceContours each boundary pixel is       *)
(* claimed by exactly one path: no pixel is a point of two different       *)
(* returned paths, and every opaque pixel that touches the image edge or   *)
(* has a transparent orthogonal neighbour, and belongs to a region of more *)
(* than 2 pixels, is a point of some returned path.                        *)
(***************************************************************************)
MaskPixels(img) == {Pt(px, py) : px \in 0..(img.width - 1), py \in 0..(img.height - 1)}

OpaqueNeighbours(img, p) ==
    {Neighbour(p, d) : d \in {e \in 0..7 : isOpaque(img, Neighbour(p, e).x, Neighbour(p, e).y)}}

\* p and two more opaque pixels are connected through neighbours
InRegionOverTwo(img, p) ==
    \/ Cardinality(OpaqueNeighbours(img, p)) >= 2
    \/ \E n \in OpaqueNeighbours(img, p) : OpaqueNeighbours(img, n) # {p}

BoundaryPixels(img) ==
    {p \in MaskPixels(img) : isOpaque(img, p.x, p.y) /\ isBoundary(img, p.x, p.y)}

NoSharedPixel(ps) ==
    \A i, j \in 1..Len(ps) : i # j => PointSet(ps[i]) \cap PointSet(ps[j]) = {}

EveryBoundaryClaimed(img, ps) ==
    \A p \in BoundaryPixels(img) :
        InRegionOverTwo(img, p) => \E i \in 1..Len(ps) : p \in PointSet(ps[i])

C18_NoSharedPixel == pc = "traced" => NoSharedPixel(paths)

C18_EveryBoundaryClaimed == pc = "traced" => EveryBoundaryClaimed(mask, paths)

\* C18: no pixel in two returned paths, every boundary pixel of a region
\* of more than 2 pixels in some returned path
C18_ClaimedByExactlyOne ==
    pc = "traced" => NoSharedPixel(paths) /\ EveryBoundaryClaimed(mask, paths)

(***************************************************************************)
(* C19: an opaque pixel that is not on the image edge and whose 8          *)
(* neighbours are all opaque is never a point of a path returned by        *)
(* traceContours.                                                          *)
(***************************************************************************)
InteriorPixels(img) ==
    {p \in MaskPixels(img) :
        /\ isOpaque(img, p.x, p.y)
        /\ p.x > 0 /\ p.y > 0 /\ p.x < img.width - 1 /\ p.y < img.height - 1
        /\ \A d \in 0..7 : isOpaque(img, Neighbour(p, d).x, Neighbour(p, d).y)}

\* C19: no interior pixel is a point of a returned path
C19_InteriorNeverTraced ==
    pc = "traced" =>
        \A p \in InteriorPixels(mask) : \A i \in 1..Len(paths) : p \notin PointSet(paths[i])

\* what the code guarantees: no walk starts at an interior pixel
C19_InteriorNeverStart ==
    pc = "traced" =>
        \A p \in InteriorPixels(mask) : \A i \in 1..Len(paths) : paths[i][1] # p

(***************************************************************************)
(* C20: for an integer radius >= 1 the alpha the Denoiser (applyFastBlur   *)
(* then applyThreshold at 128) leaves at a pixel is 255 exactly when the   *)
(* vertical mean, over the rows y-radius..y+radius that exist, of the      *)
(* horizontal means is at least 128, and 0 otherwise; a horizontal mean is *)
(* taken over the columns x-radius..x+radius that exist, from the          *)
(* unfiltered input, and stored as a rounded byte.  Windows are clipped at *)
(* the image edges and never wrap.                                         *)
(*                                                                         *)
(* As the code has it the vertical mean is stored as a rounded byte too    *)
(* before it is compared with 128, so the output is 255 exactly when the   *)
(* vertical mean is at least 127.5.                                        *)
(***************************************************************************)
BlurRadii == {1, 2}

Alpha(img, px, py) == Byte(img.data, (py * img.width + px) * 4 + 3)

ClipLow(c, radius) == IF c - radius < 0 THEN 0 ELSE c - radius

ClipHigh(c, radius, n) == IF c + radius > n - 1 THEN n - 1 ELSE c + radius

\* a / count to the nearest integer, a tie going to the even one
RoundHalfEven(a, count) ==
    IF 2 * (a % count) < count THEN a \div count
    ELSE IF 2 * (a % count) > count THEN (a \div count) + 1
    ELSE (a \div count) + ((a \div count) % 2)

RECURSIVE RowSum(_, _, _, _)
RowSum(img, py, lo, hi) ==
    IF lo > hi THEN 0 ELSE Alpha(img, lo, py) + RowSum(img, py, lo + 1, hi)

HorizontalMean(img, px, py, radius) ==
    RoundHalfEven(RowSum(img, py, ClipLow(px, radius), ClipHigh(px, radius, img.width)),
                  ClipHigh(px, radius, img.width) - ClipLow(px, radius) + 1)

\* the sum of the horizontal means at column px of the rows lo..hi
RECURSIVE ColumnSum(_, _, _, _, _)
ColumnSum(img, px, lo, hi, radius) ==
    IF lo > hi THEN 0
    ELSE HorizontalMean(img, px, lo, radius) + ColumnSum(img, px, lo + 1, hi, radius)

VerticalSum(img, p, radius) ==
    ColumnSum(img, p.x, ClipLow(p.y, radius), ClipHigh(p.y, radius, img.height), radius)

VerticalCount(img, p, radius) ==
    ClipHigh(p.y, radius, img.height) - ClipLow(p.y, radius) + 1

Denoised(img, radius) ==
    applyThreshold(applyFastBlur(img, radius), DENOISE_THRESHOLD)

\* traceImage has just built the mask of colour ci
MaskBuilt == pc = "scan" /\ scanIdx = 0 /\ paths = <<>> /\ ci \in 1..Len(colors)

\* C20 as stated: 255 exactly when the vertical mean is >= 128
C20_MeanAtLeast128 ==
    MaskBuilt =>
        LET m == createColorMask(imageData, colors[ci])
        IN  \A radius \in BlurRadii :
               LET d == Denoised(m, radius)
               IN  \A p \in MaskPixels(m) :
                      Alpha(d, p.x, p.y) =
                         IF VerticalSum(m, p, radius) >= 128 * VerticalCount(m, p, radius)
                         THEN 255 ELSE 0

\* C20 as the code has it: 255 exactly when the vertical mean is >= 127.5
C20_RoundedMeanAtLeast128 ==
    MaskBuilt =>
        LET m == createColorMask(imageData, colors[ci])
        IN  /\ \A radius \in BlurRadii :
                  LET d == Denoised(m, radius)
                  IN  \A p \in MaskPixels(m) :
                         Alpha(d, p.x, p.y) =
                            IF 2 * VerticalSum(m, p, radius) >= 255 * VerticalCount(m, p, radius)
                            THEN 255 ELSE 0
            /\ RoundTolerance(tracingTolerance) >= 1 =>
                  mask = Denoised(m, RoundTolerance(tracingTolerance))

\* traceImage denoised a mask with radius 1 and a pixel whose vertical mean
\* is between 127.5 and 128 came out as 255
C20_Witness ==
    /\ MaskBuilt
    /\ RoundTolerance(tracingTolerance) = 1
    /\ LET m == createColorMask(imageData, colors[ci])
       IN  \E p \in MaskPixels(m) :
              /\ 2 * VerticalSum(m, p, 1) >= 255 * VerticalCount(m, p, 1)
              /\ VerticalSum(m, p, 1) < 128 * VerticalCount(m, p, 1)
              /\ Alpha(mask, p.x, p.y) = 255

(***************************************************************************)
(* C21: generateSvg emits the path elements in the order of                *)
(* tracedData.shapes; it emits one element for each shape that has a       *)
(* simplified contour of 2 or more points, none for a shape whose          *)
(* simplified contours all have fewer than 2 points, and an emitted        *)
(* element holds one subpath for each contour of 2 or more points and      *)
(* nothing for the others.                                                 *)
(***************************************************************************)
\* the paths of pths that have 2 or more points, in their order
RECURSIVE PathsOfTwoOrMore(_)
PathsOfTwoOrMore(pths) ==
    IF pths = <<>> THEN <<>>
    ELSE IF Len(Head(pths)) >= 2 THEN <<Head(pths)>> \o PathsOfTwoOrMore(Tail(pths))
    ELSE PathsOfTwoOrMore(Tail(pths))

KeptContours(shape, opts) ==
    PathsOfTwoOrMore(SimplifiedContours(shape.contours, opts.simplification))

\* the shapes that keep a contour, in their order
RECURSIVE ShapesWithContour(_, _)
ShapesWithContour(shapes, opts) ==
    IF shapes = <<>> THEN <<>>
    ELSE IF KeptContours(Head(shapes), opts) # <<>>
         THEN <<Head(shapes)>> \o ShapesWithContour(Tail(shapes), opts)
         ELSE ShapesWithContour(Tail(shapes), opts)

RECURSIVE ClosedSubpaths(_)
ClosedSubpaths(pths) ==
    IF pths = <<>> THEN ""
    ELSE "M" \o PointText(Head(pths)[1]) \o "L" \o JoinPoints(Head(pths), 2) \o "Z"
            \o ClosedSubpaths(Tail(pths))

ElementOf(shape, opts) ==
    "<path fill=\"#" \o toHex(shape.color.r) \o toHex(shape.color.g)
        \o toHex(shape.color.b) \o "\" fill-opacity=\"" \o AlphaToFixed2(shape.color.a)
        \o "\"" \o StrokeAttrs(opts) \o " fill-rule=\"evenodd\" d=\""
        \o ClosedSubpaths(KeptContours(shape, opts)) \o "\"/>"

RECURSIVE ElementsOf(_, _)
ElementsOf(shapes, opts) ==
    IF shapes = <<>> THEN ""
    ELSE ElementOf(Head(shapes), opts) \o ElementsOf(Tail(shapes), opts)

CountOccurs(sub, s) ==
    Cardinality({i \in 1..(Len(s) - Len(sub) + 1) : SubSeq(s, i, i + Len(sub) - 1) = sub})

RECURSIVE CountKept(_, _)
CountKept(shapes, opts) ==
    IF shapes = <<>> THEN 0
    ELSE Len(KeptContours(Head(shapes), opts)) + CountKept(Tail(shapes), opts)

\* C21: the markup is the elements of the shapes that keep a contour, in the
\* order of tracedData.shapes, each with the subpaths of its kept contours
C21_ElementsInOrder ==
    gpc \in {"generated", "regenerated"} =>
        /\ svgCode = SvgOpen(traced.width, traced.height)
                        \o ElementsOf(ShapesWithContour(traced.shapes, options), options)
                        \o SvgClose
        /\ CountOccurs("<path", svgCode) = Len(ShapesWithContour(traced.shapes, options))
        /\ CountOccurs("M", svgCode) = CountKept(traced.shapes, options)
        /\ CountOccurs("Z", svgCode) = CountKept(traced.shapes, options)

\* two shapes of different colours are emitted, one with a dropped contour
\* beside a kept one
C21_Witness ==
    /\ gpc = "generated"
    /\ Len(traced.shapes) = 2
    /\ traced.shapes[1].color # traced.shapes[2].color
    /\ Len(ShapesWithContour(traced.shapes, options)) = 2
    /\ Len(traced.shapes[1].contours) = 2
    /\ Len(KeptContours(traced.shapes[1], options)) = 1
    /\ CountOccurs("<path", svgCode) = 2

\* a shape between or before emitted ones is omitted
C21_WitnessOmitted ==
    /\ gpc = "generated"
    /\ Len(traced.shapes) = 2
    /\ traced.shapes[1].contours # <<>>
    /\ KeptContours(traced.shapes[1], options) = <<>>
    /\ KeptContours(traced.shapes[2], options) # <<>>
    /\ CountOccurs("<path", svgCode) = 1

(***************************************************************************)
(* C22: debounce.  When tracingTolerance changes again before the timeout  *)
(* of an earlier change has expired, that timeout is cancelled: at most    *)
(* one timeout is ever pending, it holds the last tolerance, a change of   *)
(* tolerance starts no traceImage call by itself, and the expiry of the    *)
(* timeout starts exactly one call, with the last tolerance.  (The model   *)
(* has no clock: a timeout may expire at any moment after it was set, and  *)
(* "less than 500 ms apart" is "before the pending timeout expired".)      *)
(***************************************************************************)
ToleranceChanged ==
    /\ app'.tracingTolerance # app.tracingTolerance
    /\ app'.processedImage = app.processedImage
    /\ app.processedImage # Null

\* C22: one pending timeout at most, holding the last tolerance; one call
\* per expiry and none per change
C22_Debounce ==
    [][ /\ Cardinality(app'.timeouts) <= 1
        /\ \A h \in app'.timeouts :
              /\ h.tolerance = app'.tracingTolerance
              /\ app'.timer = Some(h)
        /\ ToleranceChanged =>
              /\ app'.requests = app.requests
              /\ app'.timeouts = {[image |-> app.processedImage[1],
                                   tolerance |-> app'.tracingTolerance,
                                   cause |-> "tolerance",
                                   supersedes |-> IF app.timeouts = {} THEN "none"
                                                  ELSE (CHOOSE h \in app.timeouts : TRUE).cause]}
        /\ (TraceStarted /\ app'.requests[Len(app'.requests)].by # "convert") =>
              /\ TimerExpired
              /\ app'.timeouts = {}
              /\ app'.requests[Len(app'.requests)].tolerance = app.tracingTolerance
      ]_vars

\* a burst: the pending timeout was set by a change of tolerance that
\* cancelled the timeout of an earlier change, and holds the last value
C22_Witness ==
    \E h \in app.timeouts :
        /\ h.cause = "tolerance"
        /\ h.supersedes = "tolerance"
        /\ h.tolerance = app.tracingTolerance
        /\ app.timeouts = {h}
        /\ \A r \in 1..Len(app.requests) : app.requests[r].by # "tolerance"

(***************************************************************************)
(* C23: for every colour c that quantizeAndGetColors retains, the number   *)
(* of opaque pixels of createColorMask(image, c) is c.count; so the area   *)
(* of a TracedShape is the number of pixels of the mask that was built     *)
(* for its colour, before any denoising.                                   *)
(***************************************************************************)
MaskArea(img, color) == Cardinality(OpaquePixels(createColorMask(img, color)))

C23_CountIsMaskArea ==
    /\ (pc = "color" /\ ci = 1) =>
          \A c \in 1..Len(colors) : MaskArea(imageData, colors[c]) = colors[c].count
    /\ pc = "returned" =>
          \A i \in 1..Len(traced.shapes) :
             traced.shapes[i].area = MaskArea(imageData, traced.shapes[i].color)

\* two shapes of the same r, g, b at two alpha levels were returned, traced
\* on denoised masks
C23_Witness ==
    /\ pc = "returned"
    /\ tracingTolerance = 10
    /\ Len(traced.shapes) = 2
    /\ traced.shapes[1].color.r = traced.shapes[2].color.r
    /\ traced.shapes[1].color.b = traced.shapes[2].color.b
    /\ traced.shapes[1].area > traced.shapes[2].area
    /\ MaskArea(imageData, traced.shapes[1].color) = traced.shapes[1].area

(***************************************************************************)
(* C24: every path returned by traceContours consists of in-bounds opaque  *)
(* pixels of the mask; it starts at a pixel that was unvisited (in no path *)
(* returned before it) and is a boundary candidate; every two consecutive  *)
(* points are 8-adjacent; and it is closed: its last point is 8-adjacent   *)
(* to its first.                                                           *)
(***************************************************************************)
Adjacent8(p, q) ==
    /\ p # q
    /\ p.x - q.x \in {-1, 0, 1}
    /\ p.y - q.y \in {-1, 0, 1}

\* p is on the image edge or has a transparent orthogonal neighbour
BoundaryCandidate(img, p) ==
    \/ p.x \in {0, img.width - 1}
    \/ p.y \in {0, img.height - 1}
    \/ \E d \in {0, 2, 4, 6} : ~isOpaque(img, Neighbour(p, d).x, Neighbour(p, d).y)

WellFormedPath(img, ps, i) ==
    LET pth == ps[i]
    IN  /\ \A k \in 1..Len(pth) :
              /\ pth[k] \in MaskPixels(img)
              /\ isOpaque(img, pth[k].x, pth[k].y)
        /\ BoundaryCandidate(img, pth[1])
        /\ \A j \in 1..(i - 1) : pth[1] \notin PointSet(ps[j])
        /\ \A k \in 1..(Len(pth) - 1) : Adjacent8(pth[k], pth[k + 1])
        /\ Adjacent8(pth[Len(pth)], pth[1])

C24_WellFormedPaths ==
    \A i \in 1..Len(paths) : Len(paths[i]) > 2 /\ WellFormedPath(mask, paths, i)

\* two paths were returned, the second over pixels of the first
C24_Witness ==
    /\ pc = "traced"
    /\ Len(paths) = 2
    /\ PointSet(paths[1]) \cap PointSet(paths[2]) # {}
    /\ WellFormedPath(mask, paths, 2)

(***************************************************************************)
(* C25: in every TracedData returned by traceImage each shape has at least *)
(* one contour and every contour has at least 3 points; so for every       *)
(* epsilon >= 0 generateSvg emits exactly one path element per shape and   *)
(* the container-only result never comes from a traceImage result.         *)
(***************************************************************************)
\* the options generateSvg is tried with: epsilon 0, 1.0 and 100.0
TracedOptions ==
    { [simplification |-> e, strokeEnabled |-> FALSE, strokeColor |-> "#000000",
       strokeWidth |-> 10] : e \in {0, 10, 1000} }

ShapesHaveContours(td) ==
    \A i \in 1..Len(td.shapes) :
        /\ Len(td.shapes[i].contours) >= 1
        /\ \A j \in 1..Len(td.shapes[i].contours) : Len(td.shapes[i].contours[j]) >= 3

C25_OneElementPerShape ==
    pc = "returned" =>
        /\ Len(traced.shapes) >= 1
        /\ ShapesHaveContours(traced)
        /\ \A o \in TracedOptions :
              /\ CountOccurs("<path", generateSvg(traced, o)) = Len(traced.shapes)
              /\ generateSvg(traced, o) # EmptyContainer(traced)

\* a returned TracedData with two shapes, one of them with two contours
C25_Witness ==
    /\ pc = "returned"
    /\ Len(traced.shapes) = 2
    /\ \E i \in 1..2 : Len(traced.shapes[i].contours) = 2
    /\ \A o \in TracedOptions : CountOccurs("<path", generateSvg(traced, o)) = 2

(***************************************************************************)
(* C26: simplifyPath(P, epsilon) is an order-preserving subsequence of P,  *)
(* and every point of P it removes is at distance at most epsilon from the *)
(* straight segment that joins the nearest retained point before it and    *)
(* the nearest retained point after it.                                    *)
(***************************************************************************)
\* the squared distance of p to the segment a-b, as <<num, den>>: to a when
\* the projection falls before a, to b when it falls after b, to the line
\* otherwise
SqDistToSegment(p, a, b) ==
    LET abx == b.x - a.x
        aby == b.y - a.y
        apx == p.x - a.x
        apy == p.y - a.y
        dot == apx * abx + apy * aby
        len2 == abx * abx + aby * aby
        cross == abx * apy - aby * apx
    IN  IF len2 = 0 \/ dot <= 0 THEN <<apx * apx + apy * apy, 1>>
        ELSE IF dot >= len2
             THEN <<(p.x - b.x) * (p.x - b.x) + (p.y - b.y) * (p.y - b.y), 1>>
             ELSE <<cross * cross, len2>>

WithinDistance(p, a, b, eps10) ==
    SqDistToSegment(p, a, b)[1] * 100 <= eps10 * eps10 * SqDistToSegment(p, a, b)[2]

\* f places the points of s, in order, on positions of pts, the first on the
\* first and the last on the last
PlacesIn(f, s, pts) ==
    /\ \A k \in 1..Len(s) : pts[f[k]] = s[k]
    /\ \A k \in 1..(Len(s) - 1) : f[k] < f[k + 1]
    /\ Len(pts) > 0 => (Len(s) > 0 /\ f[1] = 1 /\ f[Len(s)] = Len(pts))

\* every position of pts that f leaves out is within eps10 of the segment
\* between the positions kept before and after it
RemovedWithin(f, s, pts, eps10) ==
    \A i \in 1..Len(pts) :
        \A k \in 1..(Len(s) - 1) :
            (f[k] < i /\ i < f[k + 1]) =>
                WithinDistance(pts[i], pts[f[k]], pts[f[k + 1]], eps10)

C26_SubsequenceWithinEpsilon ==
    spc # "input" =>
        \E f \in [1..Len(simplified) -> 1..Len(points)] :
            /\ PlacesIn(f, simplified, points)
            /\ RemovedWithin(f, simplified, points, epsilon)

\* a point off the chord was removed and a point was kept between the ends
C26_Witness ==
    /\ spc = "once"
    /\ Len(points) = 4
    /\ Len(simplified) = 3
    /\ epsilon > 0
    /\ \E i \in 2..3 :
          /\ points[i] \notin PointSet(simplified)
          /\ \A k \in 1..2 : SqDistToSegment(points[i], simplified[k], simplified[k + 1])[1] > 0

(***************************************************************************)
(* C27: every colour returned by quantizeAndGetColors has r, g and b equal *)
(* to a multiple of 16 in 0..240 and a equal to a multiple of 32 in        *)
(* 0..224; so no stored alpha reaches the opaque threshold 240 and every   *)
(* emitted fill is '#' and exactly six hexadecimal digits.                 *)
(***************************************************************************)
Multiples16 == { 16 * k : k \in 0..15 }

Multiples32 == { 32 * k : k \in 0..7 }

HexChars == { "0", "1", "2", "3", "4", "5", "6", "7", "8", "9",
              "a", "b", "c", "d", "e", "f" }

QuantisedColour(c) ==
    /\ c.r \in Multiples16
    /\ c.g \in Multiples16
    /\ c.b \in Multiples16
    /\ c.a \in Multiples32
    /\ c.a < OPAQUE_THRESHOLD

FillOptions ==
    [simplification |-> 0, strokeEnabled |-> FALSE, strokeColor |-> "#000000",
     strokeWidth |-> 10]

\* the element starts with <path fill="#hhhhhh"
FillIsSixDigits(element) ==
    /\ Len(element) >= 20
    /\ SubSeq(element, 1, 13) = "<path fill=\"#"
    /\ \A i \in 14..19 : SubSeq(element, i, i) \in HexChars
    /\ SubSeq(element, 20, 20) = "\""

C27_QuantisedColours ==
    /\ \A k \in 1..Len(colors) : QuantisedColour(colors[k])
    /\ \A k \in 1..Len(allShapes) :
          /\ QuantisedColour(allShapes[k].color)
          /\ FillIsSixDigits(PathElement(allShapes[k], FillOptions))
    /\ pc = "start" =>
          \A k \in 1..Len(quantizeAndGetColors(imageData)) :
              QuantisedColour(quantizeAndGetColors(imageData)[k])
    /\ pc = "start" =>
          \A v \in 0..255 :
              /\ QuantChannel(v) \in Multiples16
              /\ QuantAlpha(v) \in Multiples32
              /\ QuantAlpha(v) < OPAQUE_THRESHOLD
              /\ Len(toHex(QuantChannel(v))) = 2

\* a returned shape whose pixels are 255, 0, 0, 255: the channels quantise to
\* 240 and 0, the alpha to 224, and the fill needs its padding
C27_Witness ==
    /\ pc = "returned"
    /\ \E k \in 1..Len(traced.shapes) :
          /\ traced.shapes[k].color.r = 240
          /\ traced.shapes[k].color.g = 0
          /\ traced.shapes[k].color.a = 224
          /\ SubSeq(PathElement(traced.shapes[k], FillOptions), 1, 20)
                = "<path fill=\"#f00000\""
    /\ \E k \in 1..Len(traced.shapes) : traced.shapes[k].color.a = 96

(***************************************************************************)
(* C28: each conversion the user starts (Convert Full Image or Convert     *)
(* Selected Area), when the tolerance is not changed afterwards, starts    *)
(* exactly one traceImage call for the selected image.  A call whose by is *)
(* "image" comes from a timeout that the change of processedImage set and  *)
(* that no later change of the tolerance replaced.                         *)
(***************************************************************************)
ConversionCalls(a, image) ==
    { r \in 1..Len(a.requests) :
        /\ a.requests[r].image = image
        /\ a.requests[r].by \in {"convert", "image"} }

\* C28: a converted image has exactly one traceImage call that no change of
\* the tolerance caused
C28_OneTracePerConversion ==
    \A r \in 1..Len(app.requests) :
        app.requests[r].by = "convert" =>
            Cardinality(ConversionCalls(app, app.requests[r].image)) = 1

\* two calls with the same image and the same tolerance, the second from the
\* timeout, both still pending
C28_TracedTwice ==
    \E ra, rb \in 1..Len(app.requests) :
        /\ ra < rb
        /\ app.requests[ra].by = "convert"
        /\ app.requests[rb].by = "image"
        /\ app.requests[ra].image = app.requests[rb].image
        /\ app.requests[ra].tolerance = app.requests[rb].tolerance
        /\ app.requests[ra].status = "pending"
        /\ app.requests[rb].status = "pending"

(***************************************************************************)
(* C29: in every reachable state of App in which a traceImage call started *)
(* by runConversion has not settled, isLoading is true: the spinner is     *)
(* shown and no SVG result is displayed.                                   *)
(***************************************************************************)
\* line 296: the Spinner is rendered
SpinnerShown(a) == a.isLoading

\* C29: while a traceImage call is pending the spinner is shown and the
\* SvgDisplay is not
C29_LoadingWhilePending ==
    PendingRequests(app) # {} =>
        /\ app.isLoading
        /\ SpinnerShown(app)
        /\ ~SvgDisplayShown(app)

\* a result is displayed with its sliders while a call is still pending
C29_ResultShownWhilePending ==
    /\ PendingRequests(app) # {}
    /\ ~app.isLoading
    /\ SvgDisplayShown(app)

\* the same without the second call that the change of processedImage causes:
\* the pending call was started by a handler
C29_ShownWhileConvertPending ==
    /\ SvgDisplayShown(app)
    /\ \A r \in 1..Len(app.requests) : app.requests[r].by = "convert"
    /\ PendingRequests(app) # {}

(***************************************************************************)
(* C30: after handleReset, tracedData and svgCode stay null and stage      *)
(* stays 'upload' until the user selects a new image: neither a traceImage *)
(* call started before the reset nor a crop image load pending at the      *)
(* reset sets tracedData, svgCode, processedImage or stage afterwards.     *)
(***************************************************************************)
\* the state handleReset leaves, for as long as no image is selected
AsReset(a) ==
    /\ a.originalImage = Null
    /\ a.processedImage = Null
    /\ a.tracedData = Null
    /\ a.svgCode = Null
    /\ a.stage = "upload"

\* C30: a step from the state a reset left that selects no image leaves
\* tracedData, svgCode, processedImage and stage as the reset left them
C30_ResetHolds ==
    [][(AsReset(app) /\ app'.originalImage = Null) => AsReset(app')]_vars

\* a result is shown in the upload stage, with no image selected: the call
\* started before the reset resolved after it
C30_ResultAfterReset ==
    /\ app.originalImage = Null
    /\ app.processedImage = Null
    /\ app.stage = "upload"
    /\ app.loads = {}
    /\ app.cropLoads = {}
    /\ app.tracedData # Null
    /\ SvgDisplayShown(app)

\* the crop image loaded after the reset: the result stage with no original
\* image, and a call pending for the crop
C30_CropAfterReset ==
    /\ app.originalImage = Null
    /\ app.loads = {}
    /\ app.stage = "result"
    /\ app.processedImage # Null
    /\ app.processedImage[1].cropped
    /\ \A r \in 1..Len(app.requests) : app.requests[r].image.cropped
    /\ PendingRequests(app) # {}

(***************************************************************************)
(* C9: simplifying an already simplified path with the same epsilon        *)
(* returns the same point sequence.                                        *)
(***************************************************************************)
C9_Idempotent == spc = "twice" => resimplified = simplified

\* a path that was really shortened, and not to its two end points
C9_Witness ==
    /\ spc = "twice"
    /\ Len(simplified) < Len(points)
    /\ Len(simplified) >= 3

(***************************************************************************)
(* C10: the first and the last point of a non-empty path are the first     *)
(* and the last point of its simplification.                               *)
(***************************************************************************)
C10_Endpoints ==
    (spc # "input" /\ Len(points) > 0) =>
        /\ Len(simplified) > 0
        /\ simplified[1] = points[1]
        /\ simplified[Len(simplified)] = points[Len(points)]

\* a path of distinct end points that was collapsed to them
C10_Witness ==
    /\ spc = "once"
    /\ Len(points) >= 4
    /\ Len(simplified) = 2
    /\ points[1] # points[Len(points)]

=============================================================================
